---- MODULE Spec2Model ----
(***************************************************************************)
(* BotBuilder.  The storage layer (source/internal/data.ts): the           *)
(* identifier resolver, the Cache, File and Dual backends and the batch /  *)
(* predicate layer of BaseStorage; the action managers                     *)
(* (source/internal/action.ts); the construction of the BotClient          *)
(* (index.ts); the Clock (source/internal/clock.ts); the ComponentBuilder   *)
(* (utility/builder/component.ts).                                         *)
(*                                                                         *)
(* Strings are sequences of one-character strings, so that the string      *)
(* methods the code uses (replace, startsWith, endsWith, slice,            *)
(* lastIndexOf, template literals) are computed character by character.    *)
(***************************************************************************)
EXTENDS Integers, Sequences, FiniteSets, TLC

VARIABLES
    kind,    \* which subclass of BaseStorage `this` is: "Cache", "File", "Dual"
    mem,     \* CacheStorage.__storage: resolved location -> value
    dirs,    \* directories of the file system (normalised paths)
    files,   \* regular files of the file system: normalised path -> text
    denied,  \* normalised paths on which every file system call is rejected
    last,    \* the last completed call: operation, arguments, outcome
    rs,      \* resolver harness: the inputs and outputs of _idPath
    am,      \* an action manager: callbacks, definitions, the last event
    bot,     \* the BotClient: its configuration and its logger
    clock,   \* the Clock: its callbacks, its timer, the last call
    tasks,   \* call chains running concurrently on the store
    builder  \* a ComponentBuilder: its components and its build call

vars == <<kind, mem, dirs, files, denied, last, rs, am, bot, clock, tasks, builder>>

storeVars == <<kind, mem, dirs, files, denied, last, am, bot, clock, tasks, builder>>

(***************************************************************************)
(* Bounds                                                                  *)
(***************************************************************************)
MaxIdLen == 3     \* longest raw identifier handed to the resolver harness
MaxBatch == 2     \* longest list handed to a batch operation
MaxDenied == 1    \* number of paths the environment may deny

(***************************************************************************)
(* String helpers                                                          *)
(***************************************************************************)
Chr(n) == IF n = 0 THEN "0" ELSE IF n = 1 THEN "1" ELSE IF n = 2 THEN "2"
          ELSE IF n = 3 THEN "3" ELSE IF n = 4 THEN "4" ELSE IF n = 5 THEN "5"
          ELSE IF n = 6 THEN "6" ELSE IF n = 7 THEN "7" ELSE IF n = 8 THEN "8"
          ELSE "9"

\* String.prototype.startsWith
StartsWith(s, p) == Len(p) <= Len(s) /\ SubSeq(s, 1, Len(p)) = p

\* String.prototype.endsWith
EndsWith(s, p) == Len(p) <= Len(s) /\ SubSeq(s, Len(s) - Len(p) + 1, Len(s)) = p

\* s.replace(/\\/g, "/")
ReplaceBackslashes(s) == [i \in 1..Len(s) |-> IF s[i] = "\\" THEN "/" ELSE s[i]]

\* s.lastIndexOf(c), 1-based; 0 when c does not occur (JavaScript: -1)
LastIndexOf(s, c) ==
    LET hits == {i \in 1..Len(s) : s[i] = c}
    IN  IF hits = {} THEN 0 ELSE CHOOSE i \in hits : \A j \in hits : j <= i

\* All strings over alphabet A of length at most n
RECURSIVE StringsUpTo(_, _)
StringsUpTo(A, n) ==
    IF n = 0 THEN {<<>>}
    ELSE LET shorter == StringsUpTo(A, n - 1)
         IN  shorter \cup {Append(s, c) : s \in shorter, c \in A}

(***************************************************************************)
(* Identifier resolver (BaseStorage._rootPath, _dirPath, _idPath)          *)
(***************************************************************************)
rootPath == <<".", "/", "d", "a", "t", "a">>

defaultExtension == <<"j", "s", "o", "n">>

\* An options record; extension is NoExt when the caller leaves it out
NoExt == <<"undefined">>

\* options?.extension handed to a parameter with a default value
ExtOrDefault(ext) == IF ext = NoExt THEN defaultExtension ELSE ext

\* _dirPath without the separator appended to the directory
dirPathWithoutSeparator(dir) ==
    LET d1 == ReplaceBackslashes(dir)
        d2 == IF StartsWith(d1, <<"/">>) THEN Tail(d1) ELSE d1
    IN  rootPath \o <<"/">> \o d2

dirPath(dir) ==
    LET d1 == ReplaceBackslashes(dir)
        d2 == IF StartsWith(d1, <<"/">>) THEN Tail(d1) ELSE d1
        d3 == IF ~EndsWith(d2, <<"/">>) THEN d2 \o <<"/">> ELSE d2
    IN  rootPath \o <<"/">> \o d3

idPath(id, ext) ==
    LET extension == ExtOrDefault(ext)
        i1 == ReplaceBackslashes(id)
        i2 == IF StartsWith(i1, <<"/">>) THEN Tail(i1) ELSE i1
    IN  IF EndsWith(i2, extension) THEN rootPath \o <<"/">> \o i2
        ELSE rootPath \o <<"/">> \o i2 \o <<".">> \o extension

(***************************************************************************)
(* JavaScript values.  A value is a tagged tuple, so that values of        *)
(* different types are never confused:                                     *)
(*   <<"undefined">>  <<"null">>  <<"bool", b>>  <<"num", n>>              *)
(*   <<"str", chars>>  <<"arr", <<v1, ...>>>>                              *)
(*   <<"obj", << <<key1, v1>>, ... >> >>                                   *)
(***************************************************************************)
Undefined == <<"undefined">>

Null == <<"null">>

Bool(b) == <<"bool", b>>

Num(n) == <<"num", n>>

Str(s) == <<"str", s>>

Arr(elems) == <<"arr", elems>>

Obj(members) == <<"obj", members>>

Tag(v) == v[1]

\* Decimal digits of a natural number
RECURSIVE Digits(_)
Digits(n) == IF n < 10 THEN <<Chr(n)>> ELSE Digits(n \div 10) \o <<Chr(n % 10)>>

DigitChars == {"0", "1", "2", "3", "4", "5", "6", "7", "8", "9"}

DigitVal(c) == CHOOSE n \in 0..9 : Chr(n) = c

RECURSIVE Join(_, _)
Join(parts, sep) ==
    IF parts = <<>> THEN <<>>
    ELSE IF Len(parts) = 1 THEN parts[1]
    ELSE parts[1] \o sep \o Join(Tail(parts), sep)

Tabs(n) == [i \in 1..n |-> "\t"]

Quoted(s) == <<"\"">> \o s \o <<"\"">>

\* JSON.stringify(data, null, "\t") at nesting depth `depth`
RECURSIVE Stringify(_, _)
Stringify(v, depth) ==
    CASE Tag(v) = "undefined" -> Undefined
      [] Tag(v) = "null" -> <<"n", "u", "l", "l">>
      [] Tag(v) = "bool" -> IF v[2] THEN <<"t", "r", "u", "e">>
                            ELSE <<"f", "a", "l", "s", "e">>
      [] Tag(v) = "num" -> Digits(v[2])
      [] Tag(v) = "str" -> Quoted(v[2])
      [] Tag(v) = "arr" ->
            IF v[2] = <<>> THEN <<"[", "]">>
            ELSE <<"[", "\n">>
                 \o Join([i \in 1..Len(v[2]) |->
                            Tabs(depth + 1) \o Stringify(v[2][i], depth + 1)],
                         <<",", "\n">>)
                 \o <<"\n">> \o Tabs(depth) \o <<"]">>
      [] Tag(v) = "obj" ->
            IF v[2] = <<>> THEN <<"{", "}">>
            ELSE <<"{", "\n">>
                 \o Join([i \in 1..Len(v[2]) |->
                            Tabs(depth + 1) \o Quoted(v[2][i][1]) \o <<":", " ">>
                            \o Stringify(v[2][i][2], depth + 1)],
                         <<",", "\n">>)
                 \o <<"\n">> \o Tabs(depth) \o <<"}">>

\* The template literal `${data}` (String(data))
RECURSIVE ToStr(_)
ToStr(v) ==
    CASE Tag(v) = "undefined" -> <<"u", "n", "d", "e", "f", "i", "n", "e", "d">>
      [] Tag(v) = "null" -> <<"n", "u", "l", "l">>
      [] Tag(v) = "bool" -> IF v[2] THEN <<"t", "r", "u", "e">>
                            ELSE <<"f", "a", "l", "s", "e">>
      [] Tag(v) = "num" -> Digits(v[2])
      [] Tag(v) = "str" -> v[2]
      [] Tag(v) = "arr" ->
            Join([i \in 1..Len(v[2]) |->
                    IF Tag(v[2][i]) \in {"undefined", "null"} THEN <<>>
                    ELSE ToStr(v[2][i])], <<",">>)
      [] Tag(v) = "obj" -> <<"[", "o", "b", "j", "e", "c", "t", " ",
                             "O", "b", "j", "e", "c", "t", "]">>

(***************************************************************************)
(* JSON.parse: a recursive-descent parser over the characters of the text. *)
(* A parse result is [ok, val, pos]: pos is the position after the value.  *)
(***************************************************************************)
WhiteSpace == {" ", "\t", "\n", "\r"}

ParseFail == [ok |-> FALSE, val |-> Undefined, pos |-> 0]

\* First position at or after i that holds no white space (Len(s)+1 if none)
SkipWs(s, i) ==
    LET stops == {j \in i..Len(s) : s[j] \notin WhiteSpace}
    IN  IF stops = {} THEN Len(s) + 1
        ELSE CHOOSE j \in stops : \A k \in stops : j <= k

RECURSIVE DigitsValue(_)
DigitsValue(ds) ==
    IF ds = <<>> THEN 0
    ELSE 10 * DigitsValue(SubSeq(ds, 1, Len(ds) - 1)) + DigitVal(ds[Len(ds)])

ParseNumber(s, i) ==
    LET stops == {j \in i..Len(s) : s[j] \notin DigitChars}
        end == IF stops = {} THEN Len(s) + 1
               ELSE CHOOSE j \in stops : \A k \in stops : j <= k
    IN  IF end = i THEN ParseFail
        ELSE IF s[i] = "0" /\ end > i + 1 THEN ParseFail
        ELSE [ok |-> TRUE, val |-> Num(DigitsValue(SubSeq(s, i, end - 1))),
              pos |-> end]

ParseLiteral(s, i, word, v) ==
    IF i + Len(word) - 1 <= Len(s) /\ SubSeq(s, i, i + Len(word) - 1) = word
    THEN [ok |-> TRUE, val |-> v, pos |-> i + Len(word)]
    ELSE ParseFail

ParseString(s, i) ==
    LET closes == {j \in (i + 1)..Len(s) : s[j] = "\""}
        close == CHOOSE j \in closes : \A k \in closes : j <= k
    IN  IF i > Len(s) \/ s[i] # "\"" \/ closes = {} THEN ParseFail
        ELSE IF \E j \in (i + 1)..(close - 1) : s[j] \in {"\\", "\n", "\t", "\r"}
        THEN ParseFail
        ELSE [ok |-> TRUE, val |-> Str(SubSeq(s, i + 1, close - 1)),
              pos |-> close + 1]

\* Object members with the last occurrence of a key winning
PutMember(members, key, v) ==
    IF \E k \in 1..Len(members) : members[k][1] = key
    THEN [k \in 1..Len(members) |->
            IF members[k][1] = key THEN <<key, v>> ELSE members[k]]
    ELSE Append(members, <<key, v>>)

RECURSIVE ParseValue(_, _)
RECURSIVE ParseElements(_, _, _)
RECURSIVE ParseMembers(_, _, _)

\* s[i] is the first character of an element; acc holds the elements so far
ParseElements(s, i, acc) ==
    LET After(e, j) ==
            IF ~e.ok \/ j > Len(s) THEN ParseFail
            ELSE IF s[j] = "]"
            THEN [ok |-> TRUE, val |-> Arr(Append(acc, e.val)), pos |-> j + 1]
            ELSE IF s[j] = ","
            THEN ParseElements(s, SkipWs(s, j + 1), Append(acc, e.val))
            ELSE ParseFail
        Element(e) == After(e, SkipWs(s, e.pos))
    IN  Element(ParseValue(s, i))

\* s[i] is the first character of a member key; acc holds the members so far
ParseMembers(s, i, acc) ==
    LET After(k, v, j) ==
            IF ~v.ok \/ j > Len(s) THEN ParseFail
            ELSE IF s[j] = "}"
            THEN [ok |-> TRUE, val |-> Obj(PutMember(acc, k.val[2], v.val)),
                  pos |-> j + 1]
            ELSE IF s[j] = ","
            THEN ParseMembers(s, SkipWs(s, j + 1), PutMember(acc, k.val[2], v.val))
            ELSE ParseFail
        Member(k, v) == After(k, v, SkipWs(s, v.pos))
        Colon(k, c) ==
            IF ~k.ok \/ c > Len(s) THEN ParseFail
            ELSE IF s[c] # ":" THEN ParseFail
            ELSE Member(k, ParseValue(s, SkipWs(s, c + 1)))
        Key(k) == Colon(k, SkipWs(s, k.pos))
    IN  Key(ParseString(s, i))

ParseValue(s, i) ==
    IF i > Len(s) THEN ParseFail
    ELSE IF s[i] = "n" THEN ParseLiteral(s, i, <<"n", "u", "l", "l">>, Null)
    ELSE IF s[i] = "t" THEN ParseLiteral(s, i, <<"t", "r", "u", "e">>, Bool(TRUE))
    ELSE IF s[i] = "f"
    THEN ParseLiteral(s, i, <<"f", "a", "l", "s", "e">>, Bool(FALSE))
    ELSE IF s[i] \in DigitChars THEN ParseNumber(s, i)
    ELSE IF s[i] = "\"" THEN ParseString(s, i)
    ELSE IF s[i] = "["
    THEN LET j == SkipWs(s, i + 1)
         IN  IF j > Len(s) THEN ParseFail
             ELSE IF s[j] = "]"
             THEN [ok |-> TRUE, val |-> Arr(<<>>), pos |-> j + 1]
             ELSE ParseElements(s, j, <<>>)
    ELSE IF s[i] = "{"
    THEN LET j == SkipWs(s, i + 1)
         IN  IF j > Len(s) THEN ParseFail
             ELSE IF s[j] = "}"
             THEN [ok |-> TRUE, val |-> Obj(<<>>), pos |-> j + 1]
             ELSE ParseMembers(s, j, <<>>)
    ELSE ParseFail

\* JSON.parse(text): ok is FALSE where JSON.parse throws a SyntaxError
JSONParse(text) ==
    LET Whole(r) == IF r.ok /\ SkipWs(text, r.pos) = Len(text) + 1
                    THEN [ok |-> TRUE, val |-> r.val]
                    ELSE [ok |-> FALSE, val |-> Undefined]
    IN  Whole(ParseValue(text, SkipWs(text, 1)))

(***************************************************************************)
(* The file system behind fs/promises.  A path is normalised to its        *)
(* sequence of components relative to the working directory: empty and     *)
(* "." components are dropped, ".." removes the component before it.       *)
(* <<>> is the working directory itself.                                   *)
(***************************************************************************)
RECURSIVE Split(_, _)
Split(s, sep) ==
    LET hits == {i \in 1..Len(s) : s[i] = sep}
        first == CHOOSE i \in hits : \A j \in hits : i <= j
    IN  IF hits = {} THEN <<s>>
        ELSE <<SubSeq(s, 1, first - 1)>> \o Split(SubSeq(s, first + 1, Len(s)), sep)

RECURSIVE Canonical(_, _)
Canonical(comps, acc) ==
    IF comps = <<>> THEN acc
    ELSE IF Head(comps) \in {<<>>, <<".">>} THEN Canonical(Tail(comps), acc)
    ELSE IF Head(comps) = <<".", ".">>
    THEN Canonical(Tail(comps),
                   IF acc = <<>> THEN acc ELSE SubSeq(acc, 1, Len(acc) - 1))
    ELSE Canonical(Tail(comps), Append(acc, Head(comps)))

Normalize(path) == Canonical(Split(path, "/"), <<>>)

Parent(n) == SubSeq(n, 1, Len(n) - 1)

\* The world an operation runs in: the cache map and the file system
World(m, d, f) == [mem |-> m, dirs |-> d, files |-> f]

\* The settled promise of a file system call
Fulfilled(content, w) == [ok |-> TRUE, content |-> content, w |-> w]

Rejected(w) == [ok |-> FALSE, content |-> Null, w |-> w]

\* FS.readFile(path, { encoding: "utf8" })
ReadFile(w, path) ==
    LET n == Normalize(path)
    IN  IF n \notin denied /\ n \in DOMAIN w.files
        THEN Fulfilled(w.files[n], w)
        ELSE Rejected(w)

\* FS.writeFile(path, raw, { encoding: "utf8" })
WriteFile(w, path, raw) ==
    LET n == Normalize(path)
    IN  IF /\ n \notin denied
           /\ raw # Undefined
           /\ n # <<>>
           /\ n \notin w.dirs
           /\ Parent(n) \in w.dirs
        THEN Fulfilled(Undefined,
                 [w EXCEPT !.files = [q \in DOMAIN w.files \cup {n} |->
                                         IF q = n THEN raw ELSE w.files[q]]])
        ELSE Rejected(w)

\* FS.mkdir(path), not recursive
Mkdir(w, path) ==
    LET n == Normalize(path)
    IN  IF /\ n \notin denied
           /\ n # <<>>
           /\ n \notin w.dirs
           /\ n \notin DOMAIN w.files
           /\ Parent(n) \in w.dirs
        THEN Fulfilled(Undefined, [w EXCEPT !.dirs = w.dirs \cup {n}])
        ELSE Rejected(w)

\* FS.rm(path), not recursive
Rm(w, path) ==
    LET n == Normalize(path)
    IN  IF n \notin denied /\ n \in DOMAIN w.files
        THEN Fulfilled(Undefined,
                 [w EXCEPT !.files = [q \in DOMAIN w.files \ {n} |-> w.files[q]]])
        ELSE Rejected(w)

\* The directory entries FS.readdir(path, { withFileTypes: true }) yields
Dirents(w, n) ==
    {[name |-> q[Len(q)], isFile |-> TRUE] :
        q \in {f \in DOMAIN w.files : f # <<>> /\ Parent(f) = n}}
    \cup
    {[name |-> q[Len(q)], isFile |-> FALSE] :
        q \in {d \in w.dirs : d # <<>> /\ Parent(d) = n}}

\* The orders in which a set can be enumerated
Orders(S) ==
    {f \in [1..Cardinality(S) -> S] : \A i, j \in DOMAIN f : i # j => f[i] # f[j]}

\* FS.readdir(path, { withFileTypes: true }); the file system fixes the
\* order of the entries, `order` stands for it
Readdir(w, path, order) ==
    LET n == Normalize(path)
    IN  IF n \notin denied /\ n \in w.dirs /\ order \in Orders(Dirents(w, n))
        THEN Fulfilled(order, w)
        ELSE Rejected(w)

(***************************************************************************)
(* autoCatch (utility/common.ts): awaits the promise and converts a        *)
(* rejection to { result: false, content: null }.  `rethrown` tells        *)
(* whether the rejection leaves autoCatch as an exception.                 *)
(***************************************************************************)
AutoCatchRethrowing(promise) ==
    [result |-> promise.ok, content |-> promise.content, w |-> promise.w,
     rethrown |-> ~promise.ok]

autoCatch(promise) ==
    IF promise.ok
    THEN [result |-> TRUE, content |-> promise.content, w |-> promise.w,
          rethrown |-> FALSE]
    ELSE [result |-> FALSE, content |-> Null, w |-> promise.w,
          rethrown |-> FALSE]

(***************************************************************************)
(* Outcome of a storage call: the returned value, whether and why the      *)
(* call threw ("none", "fs": a file system rejection, "parse": a           *)
(* SyntaxError of JSON.parse), the world afterwards and the primitive      *)
(* calls made on the store, in order.                                      *)
(***************************************************************************)
Out(ret, threw, w, calls) == [ret |-> ret, threw |-> threw, w |-> w, calls |-> calls]

Returns(ret, w) == Out(ret, "none", w, <<>>)

Throws(why, w) == Out(Undefined, why, w, <<>>)

IsTrue(v) == v = Bool(TRUE)

\* StorageOptions
Options(ext, noCache, noFile) ==
    [extension |-> ext, noCache |-> noCache, noFile |-> noFile]

DefaultOptions == Options(NoExt, FALSE, FALSE)

(***************************************************************************)
(* CacheStorage.  __storage is a Map: a sequence of <<key, value>> pairs   *)
(* in insertion order.                                                     *)
(***************************************************************************)
MapHas(m, key) == \E i \in 1..Len(m) : m[i][1] = key

MapIndex(m, key) == CHOOSE i \in 1..Len(m) : m[i][1] = key

MapGet(m, key) == IF MapHas(m, key) THEN m[MapIndex(m, key)][2] ELSE Undefined

MapSet(m, key, value) ==
    IF MapHas(m, key)
    THEN [m EXCEPT ![MapIndex(m, key)] = <<key, value>>]
    ELSE Append(m, <<key, value>>)

MapDelete(m, key) ==
    IF MapHas(m, key)
    THEN LET i == MapIndex(m, key)
         IN  SubSeq(m, 1, i - 1) \o SubSeq(m, i + 1, Len(m))
    ELSE m

CacheHas(w, id, options) ==
    IF options.noCache THEN Returns(Bool(FALSE), w)
    ELSE Returns(Bool(MapHas(w.mem, idPath(id, options.extension))), w)

CacheGet(w, id, options) ==
    IF options.noCache THEN Returns(Undefined, w)
    ELSE Returns(MapGet(w.mem, idPath(id, options.extension)), w)

\* set that stores the value whatever noCache says
CacheSetIgnoringNoCache(w, id, data, options) ==
    LET path == idPath(id, options.extension)
        after == MapSet(w.mem, path, data)
    IN  Returns(Bool(MapHas(after, path)), [w EXCEPT !.mem = after])

CacheSet(w, id, data, options) ==
    IF options.noCache THEN Returns(Bool(FALSE), w)
    ELSE LET path == idPath(id, options.extension)
             after == MapSet(w.mem, path, data)
         IN  Returns(Bool(MapHas(after, path)), [w EXCEPT !.mem = after])

CacheDel(w, id, options) ==
    IF options.noCache THEN Returns(Bool(FALSE), w)
    ELSE LET path == idPath(id, options.extension)
         IN  Returns(Bool(MapHas(w.mem, path)),
                     [w EXCEPT !.mem = MapDelete(w.mem, path)])

CacheList(w, dir, options) ==
    IF options.noCache THEN Returns(<<>>, w)
    ELSE LET path == dirPath(dir)
         IN  Returns(SelectSeq(w.mem, LAMBDA e : StartsWith(e[1], path)), w)

(***************************************************************************)
(* FileStorage                                                             *)
(***************************************************************************)
FileHas(w, id, options) ==
    IF options.noFile THEN Returns(Bool(FALSE), w)
    ELSE LET Read(read) == IF read.rethrown THEN Throws("fs", read.w)
                           ELSE Returns(Bool(read.result), read.w)
         IN  Read(autoCatch(ReadFile(w, idPath(id, options.extension))))

\* options && options.extension && options.extension !== "json"
IsRawExtension(options) ==
    /\ options.extension # NoExt
    /\ options.extension # <<>>
    /\ options.extension # defaultExtension

FileGet(w, id, options) ==
    IF options.noFile THEN Returns(Undefined, w)
    ELSE LET Parsed(read, parsed) ==
                 IF parsed.ok THEN Returns(parsed.val, read.w)
                 ELSE Throws("parse", read.w)
             Read(read) ==
                 IF read.rethrown THEN Throws("fs", read.w)
                 ELSE IF ~read.result THEN Returns(Undefined, read.w)
                 ELSE IF IsRawExtension(options)
                 THEN Returns(Str(read.content), read.w)
                 ELSE Parsed(read, JSONParse(read.content))
         IN  Read(autoCatch(ReadFile(w, idPath(id, options.extension))))

FileSet(w, id, data, options) ==
    IF options.noFile THEN Returns(Bool(FALSE), w)
    ELSE LET json == ~IsRawExtension(options)
             Written(written) ==
                 IF written.rethrown THEN Throws("fs", written.w)
                 ELSE Returns(Bool(written.result), written.w)
             Made(path, raw, made) ==
                 IF made.rethrown THEN Throws("fs", made.w)
                 ELSE Written(autoCatch(WriteFile(made.w, path, raw)))
             Resolved(path, raw) ==
                 Made(path, raw,
                      autoCatch(Mkdir(w, SubSeq(path, 1, LastIndexOf(path, "/") - 1))))
         IN  Resolved(idPath(id, options.extension),
                      IF json THEN Stringify(data, 0) ELSE ToStr(data))

FileDel(w, id, options) ==
    IF options.noFile THEN Returns(Bool(FALSE), w)
    ELSE LET Removed(removed) ==
                 IF removed.rethrown THEN Throws("fs", removed.w)
                 ELSE Returns(Bool(removed.result), removed.w)
         IN  Removed(autoCatch(Rm(w, idPath(id, options.extension))))

\* The loop of FileStorage.list over the directory entries from index i on
RECURSIVE FileListLoop(_, _, _, _, _, _)
FileListLoop(w, path, content, i, options, output) ==
    IF i > Len(content) THEN Returns(output, w)
    ELSE IF ~content[i].isFile
    THEN FileListLoop(w, path, content, i + 1, options, output)
    ELSE LET Got(id, data) ==
                 IF data.threw # "none" THEN data
                 ELSE FileListLoop(data.w, path, content, i + 1, options,
                                   Append(output, <<id, data.ret>>))
             Entry(id) == Got(id, FileGet(w, id, options))
         IN  Entry(path \o content[i].name)

FileList(w, dir, options, order) ==
    IF options.noFile THEN Returns(<<>>, w)
    ELSE LET Listed(path, listed) ==
                 IF listed.rethrown THEN Throws("fs", listed.w)
                 ELSE IF ~listed.result THEN Returns(<<>>, listed.w)
                 ELSE FileListLoop(listed.w, path, listed.content, 1, options, <<>>)
             Resolved(path) == Listed(path, autoCatch(Readdir(w, path, order)))
         IN  Resolved(dirPath(dir))

(***************************************************************************)
(* DualStorage: __cache and __file                                         *)
(***************************************************************************)
DualHas(w, id, options) ==
    LET Cached(cached) ==
            IF IsTrue(cached.ret) THEN cached ELSE FileHas(cached.w, id, options)
    IN  Cached(CacheHas(w, id, options))

DualGetCacheOnly(w, id, options) == CacheGet(w, id, options)

\* get that stores in the cache what the file answered
DualGetRepopulating(w, id, options) ==
    LET Filed(filed) ==
            IF filed.threw # "none" \/ filed.ret = Undefined THEN filed
            ELSE [filed EXCEPT !.w = CacheSet(filed.w, id, filed.ret, options).w]
        Cached(cached) ==
            IF cached.ret \notin {Undefined, Null} THEN cached
            ELSE Filed(FileGet(cached.w, id, options))
    IN  Cached(CacheGet(w, id, options))

DualGet(w, id, options) ==
    LET Cached(cached) ==
            IF cached.ret \notin {Undefined, Null} THEN cached
            ELSE FileGet(cached.w, id, options)
    IN  Cached(CacheGet(w, id, options))

DualSetWritingThrough(w, id, data, options) ==
    LET cached == CacheSet(w, id, data, options)
    IN  FileSet(cached.w, id, data, options)

DualSet(w, id, data, options) ==
    LET Cached(cached) ==
            IF ~IsTrue(cached.ret) THEN cached
            ELSE FileSet(cached.w, id, data, options)
    IN  Cached(CacheSet(w, id, data, options))

\* del that deletes from the file whatever the cache step returned
DualDelFromBoth(w, id, options) ==
    LET Cached(cached) ==
            IF ~IsTrue(cached.ret)
            THEN [cached EXCEPT !.w = FileDel(cached.w, id, options).w]
            ELSE FileDel(cached.w, id, options)
    IN  Cached(CacheDel(w, id, options))

DualDel(w, id, options) ==
    LET Cached(cached) ==
            IF ~IsTrue(cached.ret) THEN cached
            ELSE FileDel(cached.w, id, options)
    IN  Cached(CacheDel(w, id, options))

\* [...new Set([...cache, ...file])]: every pair is an array of its own, and
\* a Set tells arrays apart by identity, so no pair is dropped
DualList(w, dir, options, order) ==
    LET Filed(cached, filed) ==
            IF filed.threw # "none" THEN filed
            ELSE Returns(cached.ret \o filed.ret, filed.w)
        Cached(cached) == Filed(cached, FileList(cached.w, dir, options, order))
    IN  Cached(CacheList(w, dir, options))

(***************************************************************************)
(* The primitives of `this`, dispatched on the subclass; each call is      *)
(* recorded in the outcome's calls.                                        *)
(***************************************************************************)
Called(call, out) == [out EXCEPT !.calls = <<call>> \o out.calls]

Has(k, w, id, options) ==
    Called([op |-> "has", id |-> id, options |-> options],
           CASE k = "Cache" -> CacheHas(w, id, options)
             [] k = "File" -> FileHas(w, id, options)
             [] k = "Dual" -> DualHas(w, id, options))

Get(k, w, id, options) ==
    Called([op |-> "get", id |-> id, options |-> options],
           CASE k = "Cache" -> CacheGet(w, id, options)
             [] k = "File" -> FileGet(w, id, options)
             [] k = "Dual" -> DualGet(w, id, options))

Set(k, w, id, data, options) ==
    Called([op |-> "set", id |-> id, data |-> data, options |-> options],
           CASE k = "Cache" -> CacheSet(w, id, data, options)
             [] k = "File" -> FileSet(w, id, data, options)
             [] k = "Dual" -> DualSet(w, id, data, options))

Del(k, w, id, options) ==
    Called([op |-> "del", id |-> id, options |-> options],
           CASE k = "Cache" -> CacheDel(w, id, options)
             [] k = "File" -> FileDel(w, id, options)
             [] k = "Dual" -> DualDel(w, id, options))

List(k, w, dir, options, order) ==
    Called([op |-> "list", id |-> dir, options |-> options],
           CASE k = "Cache" -> CacheList(w, dir, options)
             [] k = "File" -> FileList(w, dir, options, order)
             [] k = "Dual" -> DualList(w, dir, options, order))

\* Whether calling has / get / set / del of `this` yields a promise: the
\* methods of FileStorage and DualStorage are async, those of CacheStorage
\* are not
ReturnsPromise(k) == k # "Cache"

\* The outcome of `first` followed by `next`, which ran in first's world
Then(first, next) == [next EXCEPT !.calls = first.calls \o next.calls]

(***************************************************************************)
(* Caller-supplied functions: the modifiers and predicates the callers of  *)
(* the model pass to modify / expect.                                      *)
(***************************************************************************)
Five == Num(5)

Value123 == Obj(<< << <<"v", "a", "l", "u", "e">>, Num(123) >> >>)

Modifiers == {"swap"}

ApplyModifier(fn, data, id) ==
    IF fn = "swap" THEN (IF data = Five THEN Value123 ELSE Five) ELSE data

Predicates == {"isFive"}

ApplyPredicate(predicate, data, id) ==
    IF predicate = "isFive" THEN data = Five ELSE TRUE

\* The outcome `out` of the calls so far when the caller-supplied function
\* that is called next throws: the error leaves the method that awaits it
CallerThrew(out) == [out EXCEPT !.ret = Undefined, !.threw = "caller"]

(***************************************************************************)
(* BaseStorage: the batch and predicate layer                              *)
(***************************************************************************)
\* for (const [id, data] of list) result &&= await this.set(id, data, options)
\* acc.ret is `result`; x &&= y evaluates y only while x is truthy
RECURSIVE setAllLoop(_, _, _, _, _)
setAllLoop(k, acc, list, i, options) ==
    IF i > Len(list) \/ acc.threw # "none" THEN acc
    ELSE IF ~IsTrue(acc.ret) THEN setAllLoop(k, acc, list, i + 1, options)
    ELSE setAllLoop(k, Then(acc, Set(k, acc.w, list[i][1], list[i][2], options)),
                    list, i + 1, options)

setAll(k, w, list, options) == setAllLoop(k, Returns(Bool(TRUE), w), list, 1, options)

RECURSIVE delAllLoop(_, _, _, _, _)
delAllLoop(k, acc, ids, i, options) ==
    IF i > Len(ids) \/ acc.threw # "none" THEN acc
    ELSE IF ~IsTrue(acc.ret) THEN delAllLoop(k, acc, ids, i + 1, options)
    ELSE delAllLoop(k, Then(acc, Del(k, acc.w, ids[i], options)), ids, i + 1, options)

delAll(k, w, ids, options) == delAllLoop(k, Returns(Bool(TRUE), w), ids, 1, options)

\* if (this.has(id, options)): the condition is the value has returns, which
\* is a promise (always truthy) when has is async
ensure(k, w, id, fallback, options) ==
    LET Stored(stored) ==
            IF stored.threw # "none" THEN stored
            ELSE [stored EXCEPT !.ret = fallback]
        Present(present) ==
            LET condition == IF ReturnsPromise(k) THEN TRUE ELSE IsTrue(present.ret)
            IN  IF present.threw # "none" THEN present
                ELSE IF condition
                THEN Then(present, Get(k, present.w, id, options))
                ELSE Then(present,
                          Stored(Set(k, present.w, id, fallback, options)))
    IN  Present(Has(k, w, id, options))

\* (await this.has(id)) && (await predicate((await this.get(id, options))!, id, this))
\* The invocation of the predicate is recorded after the calls on the store
expect(k, w, id, predicate, options) ==
    LET Got(got) ==
            IF got.threw # "none" THEN got
            ELSE IF predicate = "throws"
            THEN CallerThrew([got EXCEPT
                    !.calls = Append(got.calls,
                                     [op |-> "predicate", id |-> id,
                                      data |-> got.ret])])
            ELSE [got EXCEPT
                    !.ret = Bool(ApplyPredicate(predicate, got.ret, id)),
                    !.calls = Append(got.calls,
                                     [op |-> "predicate", id |-> id,
                                      data |-> got.ret])]
        Present(present) ==
            IF present.threw # "none" \/ ~IsTrue(present.ret) THEN present
            ELSE Then(present, Got(Get(k, present.w, id, options)))
    IN  Present(Has(k, w, id, DefaultOptions))

\* The outcome `out` with the invocation of the modifier on its value recorded
Modified(out, id) ==
    [out EXCEPT !.calls = Append(out.calls,
                                 [op |-> "modifier", id |-> id, data |-> out.ret])]

\* modify that skips the existence test
modifyUnconditionally(k, w, id, fn, options) ==
    LET Got(got) ==
            IF got.threw # "none" THEN got
            ELSE Then(Modified(got, id),
                      Set(k, got.w, id, ApplyModifier(fn, got.ret, id), options))
        Present(present) ==
            IF present.threw # "none" THEN present
            ELSE Then(present, Got(Get(k, present.w, id, options)))
    IN  Present(Has(k, w, id, options))

modify(k, w, id, fn, options) ==
    LET Got(got) ==
            IF got.threw # "none" THEN got
            ELSE IF fn = "throws" THEN CallerThrew(Modified(got, id))
            ELSE Then(Modified(got, id),
                      Set(k, got.w, id, ApplyModifier(fn, got.ret, id), options))
        Present(present) ==
            IF present.threw # "none" \/ ~IsTrue(present.ret) THEN present
            ELSE Then(present, Got(Get(k, present.w, id, options)))
    IN  Present(Has(k, w, id, options))

modifyIf(k, w, id, fn, predicate, options) ==
    LET Got(got) ==
            IF got.threw # "none" THEN got
            ELSE IF fn = "throws" THEN CallerThrew(Modified(got, id))
            ELSE Then(Modified(got, id),
                      Set(k, got.w, id, ApplyModifier(fn, got.ret, id), options))
        Expected(expected) ==
            IF expected.threw # "none" \/ ~IsTrue(expected.ret) THEN expected
            ELSE Then(expected, Got(Get(k, expected.w, id, options)))
    IN  Expected(expect(k, w, id, predicate, options))

RECURSIVE modifyAllLoop(_, _, _, _, _, _)
modifyAllLoop(k, acc, ids, i, fn, options) ==
    IF i > Len(ids) \/ acc.threw # "none" THEN acc
    ELSE IF ~IsTrue(acc.ret) THEN modifyAllLoop(k, acc, ids, i + 1, fn, options)
    ELSE modifyAllLoop(k, Then(acc, modify(k, acc.w, ids[i], fn, options)),
                       ids, i + 1, fn, options)

modifyAll(k, w, ids, fn, options) ==
    modifyAllLoop(k, Returns(Bool(TRUE), w), ids, 1, fn, options)

RECURSIVE modifyAllIfLoop(_, _, _, _, _, _, _)
modifyAllIfLoop(k, acc, ids, i, fn, predicate, options) ==
    IF i > Len(ids) \/ acc.threw # "none" THEN acc
    ELSE IF ~IsTrue(acc.ret)
    THEN modifyAllIfLoop(k, acc, ids, i + 1, fn, predicate, options)
    ELSE modifyAllIfLoop(k,
             Then(acc, modifyIf(k, acc.w, ids[i], fn, predicate, options)),
             ids, i + 1, fn, predicate, options)

modifyAllIf(k, w, ids, fn, predicate, options) ==
    modifyAllIfLoop(k, Returns(Bool(TRUE), w), ids, 1, fn, predicate, options)

\* hasAll from the i-th identifier on; acc is the outcome so far, which
\* starts as true.  result &&= await this.has(id, options)
RECURSIVE hasAll(_, _, _, _, _)
hasAll(k, acc, ids, i, options) ==
    IF i > Len(ids) \/ acc.threw # "none" THEN acc
    ELSE IF ~IsTrue(acc.ret) THEN hasAll(k, acc, ids, i + 1, options)
    ELSE hasAll(k, Then(acc, Has(k, acc.w, ids[i], options)), ids, i + 1, options)

\* hasAny from the i-th identifier on; acc starts as false.
\* result ||= await this.has(id, options)
RECURSIVE hasAny(_, _, _, _, _)
hasAny(k, acc, ids, i, options) ==
    IF i > Len(ids) \/ acc.threw # "none" THEN acc
    ELSE IF IsTrue(acc.ret) THEN hasAny(k, acc, ids, i + 1, options)
    ELSE hasAny(k, Then(acc, Has(k, acc.w, ids[i], options)), ids, i + 1, options)

\* getAll that puts each pair in front of the pairs it has
RECURSIVE getAllUnshifting(_, _, _, _, _)
getAllUnshifting(k, acc, ids, i, options) ==
    LET Got(got) ==
            IF got.threw # "none" THEN got
            ELSE [got EXCEPT !.ret = <<<<ids[i], got.ret>>>> \o acc.ret]
    IN  IF i > Len(ids) \/ acc.threw # "none" THEN acc
        ELSE getAllUnshifting(k, Then(acc, Got(Get(k, acc.w, ids[i], options))),
                              ids, i + 1, options)

\* getAll from the i-th identifier on; acc starts as the empty array.
\* result.push([id, await this.get(id, options)])
RECURSIVE getAll(_, _, _, _, _)
getAll(k, acc, ids, i, options) ==
    LET Got(got) ==
            IF got.threw # "none" THEN got
            ELSE [got EXCEPT !.ret = Append(acc.ret, <<ids[i], got.ret>>)]
    IN  IF i > Len(ids) \/ acc.threw # "none" THEN acc
        ELSE getAll(k, Then(acc, Got(Get(k, acc.w, ids[i], options))),
                    ids, i + 1, options)

\* expectAll from the i-th identifier on; acc starts as true
RECURSIVE expectAll(_, _, _, _, _, _)
expectAll(k, acc, ids, i, predicate, options) ==
    IF i > Len(ids) \/ acc.threw # "none" THEN acc
    ELSE IF ~IsTrue(acc.ret) THEN expectAll(k, acc, ids, i + 1, predicate, options)
    ELSE expectAll(k, Then(acc, expect(k, acc.w, ids[i], predicate, options)),
                   ids, i + 1, predicate, options)

\* expectAny from the i-th identifier on; acc starts as false
RECURSIVE expectAny(_, _, _, _, _, _)
expectAny(k, acc, ids, i, predicate, options) ==
    IF i > Len(ids) \/ acc.threw # "none" THEN acc
    ELSE IF IsTrue(acc.ret) THEN expectAny(k, acc, ids, i + 1, predicate, options)
    ELSE expectAny(k, Then(acc, expect(k, acc.w, ids[i], predicate, options)),
                   ids, i + 1, predicate, options)

\* await action(data, id, this) after the get with outcome `got`: the call
\* is recorded, and the action returns nothing or throws
Acted(got, id, fn) ==
    LET Recorded(out) == IF fn = "throws" THEN CallerThrew(out)
                         ELSE [out EXCEPT !.ret = Undefined]
    IN  IF got.threw # "none" THEN got
        ELSE Recorded([got EXCEPT
                 !.calls = Append(got.calls,
                                  [op |-> "action", id |-> id, data |-> got.ret])])

\* action that catches what the caller's action throws
actionCatching(k, w, id, fn, options) ==
    LET Present(present) ==
            IF present.threw # "none" THEN present
            ELSE IF ~IsTrue(present.ret) THEN [present EXCEPT !.ret = Undefined]
            ELSE [Then(present, Acted(Get(k, present.w, id, options), id, fn))
                     EXCEPT !.threw = "none"]
    IN  Present(Has(k, w, id, options))

\* if (await this.has(id, options)) await action((await this.get(id, options))!, id, this)
action(k, w, id, fn, options) ==
    LET Present(present) ==
            IF present.threw # "none" THEN present
            ELSE IF ~IsTrue(present.ret) THEN [present EXCEPT !.ret = Undefined]
            ELSE Then(present, Acted(Get(k, present.w, id, options), id, fn))
    IN  Present(Has(k, w, id, options))

\* if (await this.expect(id, predicate, options)) await action(...)
actionIf(k, w, id, fn, predicate, options) ==
    LET Expected(expected) ==
            IF expected.threw # "none" THEN expected
            ELSE IF ~IsTrue(expected.ret) THEN [expected EXCEPT !.ret = Undefined]
            ELSE Then(expected, Acted(Get(k, expected.w, id, options), id, fn))
    IN  Expected(expect(k, w, id, predicate, options))

\* actionAll from the i-th identifier on; acc starts as undefined
RECURSIVE actionAll(_, _, _, _, _, _)
actionAll(k, acc, ids, i, fn, options) ==
    IF i > Len(ids) \/ acc.threw # "none" THEN acc
    ELSE actionAll(k, Then(acc, action(k, acc.w, ids[i], fn, options)),
                   ids, i + 1, fn, options)

\* actionAllIf from the i-th identifier on; acc starts as undefined
RECURSIVE actionAllIf(_, _, _, _, _, _, _)
actionAllIf(k, acc, ids, i, fn, predicate, options) ==
    IF i > Len(ids) \/ acc.threw # "none" THEN acc
    ELSE actionAllIf(k, Then(acc, actionIf(k, acc.w, ids[i], fn, predicate, options)),
                     ids, i + 1, fn, predicate, options)

(***************************************************************************)
(* Action managers (source/internal/action.ts).  A callback is a token     *)
(* that tells how the listener behaves: "ok" resolves, "throws" rejects.   *)
(* What an interaction causes is recorded as a sequence of effects: the    *)
(* callback invoked with its context data, the lines logged and the        *)
(* replies sent.                                                           *)
(***************************************************************************)
Managers == {"button", "command", "modal", "selectMenu"}

Callbacks == {"ok", "throws"}

\* id.includes(";") ? id.split(";")[0] : id
RawId(id) ==
    IF \E i \in 1..Len(id) : id[i] = ";" THEN Split(id, ";")[1] ELSE id

CallbackEffect(rawId, callback, data) ==
    [op |-> "callback", id |-> rawId, callback |-> callback, data |-> data]

LogEffect(level, rawId) ==
    [op |-> "log", id |-> rawId, callback |-> level, data |-> <<>>]

SendEffect(how, rawId) ==
    [op |-> how, id |-> rawId, callback |-> "embed", data |-> <<>>]

\* ActionManager.create
create(callbacks, id, callback) ==
    LET Stored(raw, kept) == MapSet(kept, raw, callback)
        Raw(raw) == Stored(raw, IF ~MapHas(callbacks, raw)
                                THEN MapDelete(callbacks, raw) ELSE callbacks)
    IN  Raw(RawId(id))

\* DefinedActionManager.define
define(definitions, id, data) ==
    LET Raw(raw) == MapSet(IF MapHas(definitions, raw)
                           THEN MapDelete(definitions, raw) ELSE definitions,
                           raw, data)
    IN  Raw(RawId(id))

\* DefinedActionManager.create that registers without looking for a definition
definedCreateUnchecked(definitions, callbacks, id, callback) ==
    [callbacks |-> create(callbacks, RawId(id), callback), threw |-> "none"]

\* DefinedActionManager.create: the callbacks afterwards and what it threw
definedCreate(definitions, callbacks, id, callback) ==
    IF MapHas(definitions, RawId(id))
    THEN [callbacks |-> create(callbacks, RawId(id), callback), threw |-> "none"]
    ELSE [callbacks |-> callbacks, threw |-> "Missing definition"]

\* The inner try of ActionManager.invoke: sending the error embed
ErrorReply(rawId, interaction) ==
    IF ~interaction.repliable THEN <<LogEffect("error", rawId)>>
    ELSE IF interaction.deferred
    THEN IF ~interaction.ephemeral THEN <<LogEffect("error", rawId)>>
         ELSE <<SendEffect("followUp", rawId)>>
              \o (IF interaction.sendFails THEN <<LogEffect("error", rawId)>>
                  ELSE <<>>)
    ELSE <<SendEffect("reply", rawId)>>
         \o (IF interaction.sendFails THEN <<LogEffect("error", rawId)>> ELSE <<>>)

\* invoke without the try around the callback: what the callback throws
\* leaves invoke
invokeUncaught(callbacks, id, interaction) ==
    LET Found(rawId, callback, data) ==
            <<CallbackEffect(rawId, callback, data)>>
            \o (IF callback = "throws"
                THEN <<[op |-> "reject", id |-> rawId, callback |-> "error",
                        data |-> <<>>]>>
                ELSE <<LogEffect("info", rawId)>>)
        Raw(rawId, data) ==
            IF MapHas(callbacks, rawId)
            THEN Found(rawId, MapGet(callbacks, rawId), data)
            ELSE <<LogEffect("warn", rawId)>>
    IN  Raw(RawId(id), Tail(Split(id, ";")))

\* ActionManager.invoke: the effects of invoking the callback of `id`
invoke(callbacks, id, interaction) ==
    LET Found(rawId, callback, data) ==
            <<CallbackEffect(rawId, callback, data)>>
            \o (IF callback = "throws"
                THEN <<LogEffect("error", rawId)>> \o ErrorReply(rawId, interaction)
                ELSE <<LogEffect("info", rawId)>>)
        Raw(rawId, data) ==
            IF MapHas(callbacks, rawId)
            THEN Found(rawId, MapGet(callbacks, rawId), data)
            ELSE <<LogEffect("warn", rawId)>>
    IN  Raw(RawId(id), Tail(Split(id, ";")))

\* The "interactionCreate" listener each manager installs in _createListener
ButtonListener(callbacks, interaction) ==
    IF interaction.type # "button" THEN <<>>
    ELSE invoke(callbacks, RawId(interaction.customId), interaction)

CommandListener(callbacks, interaction) ==
    IF interaction.type # "command" THEN <<>>
    ELSE invoke(callbacks, interaction.commandName, interaction)

ModalListener(callbacks, interaction) ==
    IF interaction.type # "modal" THEN <<>>
    ELSE invoke(callbacks, RawId(interaction.customId), interaction)

SelectMenuListener(callbacks, interaction) ==
    IF interaction.type # "selectMenu" THEN <<>>
    ELSE invoke(callbacks, RawId(interaction.customId), interaction)

createListener(manager, callbacks, interaction) ==
    CASE manager = "button" -> ButtonListener(callbacks, interaction)
      [] manager = "command" -> CommandListener(callbacks, interaction)
      [] manager = "modal" -> ModalListener(callbacks, interaction)
      [] manager = "selectMenu" -> SelectMenuListener(callbacks, interaction)

NoInteraction ==
    [type |-> "none", customId |-> <<>>, commandName |-> <<>>,
     repliable |-> FALSE, deferred |-> FALSE, ephemeral |-> FALSE,
     sendFails |-> FALSE]

\* A manager after construction: no callbacks, no definitions
AmIdle ==
    [manager |-> "button", callbacks |-> <<>>, definitions |-> <<>>,
     op |-> "none", args |-> <<>>, interaction |-> NoInteraction,
     effects |-> <<>>, threw |-> "none"]

(***************************************************************************)
(* BotClient (index.ts): the constructor stores the configuration in the   *)
(* client's cache, a CacheStorage, and __createLogger reads it back.       *)
(***************************************************************************)
\* a ?? b
Coalesce(a, b) == IF a \in {Undefined, Null} THEN b ELSE a

\* Whether a value is truthy
Truthy(v) == v \notin {Undefined, Null, Bool(FALSE), Num(0), Str(<<>>)}

\* The pairs the constructor stores with this.cache.set, in order
ConfigEntries(config) ==
    << <<<<"t", "o", "k", "e", "n">>, config.token>>,
       <<<<"c", "m", "d", "_", "g", "u", "i", "l", "d", "s">>, Coalesce(config.devGuilds, Arr(<<>>))>>,
       <<<<"c", "m", "d", "_", "g", "l", "o", "b", "a", "l">>, Coalesce(config.globalUpdate, Bool(FALSE))>>,
       <<<<"l", "o", "g", "_", "c", "o", "l", "o", "r">>, Coalesce(config.color, Str(<<"#", "5", "8", "6", "5", "F", "2">>))>>,
       <<<<"l", "o", "g", "_", "n", "a", "m", "e">>, Coalesce(config.name, Str(<<"D", "i", "s", "c", "o", "r", "d", " ", "B", "o", "t">>))>>,
       <<<<"l", "o", "g", "_", "s", "t", "o", "r", "e">>, Coalesce(config.saveLogs, Bool(FALSE))>>,
       <<<<"l", "o", "g", "_", "s", "i", "l", "e", "n", "t">>, Coalesce(config.silent, Bool(FALSE))>>,
       <<<<"l", "o", "g", "_", "v", "e", "r", "s", "i", "o", "n">>,
         IF Truthy(config.version)
         THEN Str(<<" ", "v">> \o config.version[2]) ELSE Str(<<>>)>>,
       <<<<"c", "l", "o", "c", "k", "_", "d", "e", "l", "a", "y">>, Coalesce(config.clockInterval, Num(30000))>> >>

\* The cache after this.cache.set of the entries from index i on
RECURSIVE CacheSetEach(_, _, _)
CacheSetEach(w, entries, i) ==
    IF i > Len(entries) THEN w
    ELSE CacheSetEach(CacheSet(w, entries[i][1], entries[i][2], DefaultOptions).w,
                      entries, i + 1)

\* __createLogger: the logger built from the cache
createLogger(w) ==
    [enabled |-> CacheGet(w, <<"l", "o", "g", "_", "s", "i", "l", "e", "n", "t">>, DefaultOptions).ret,
     store |-> CacheGet(w, <<"l", "o", "g", "_", "s", "t", "o", "r", "e">>, DefaultOptions).ret,
     color |-> CacheGet(w, <<"l", "o", "g", "_", "c", "o", "l", "o", "r">>, DefaultOptions).ret,
     name |-> CacheGet(w, <<"l", "o", "g", "_", "n", "a", "m", "e">>, DefaultOptions).ret,
     version |-> CacheGet(w, <<"l", "o", "g", "_", "v", "e", "r", "s", "i", "o", "n">>, DefaultOptions).ret]

\* No client constructed yet
BotIdle ==
    [constructed |-> FALSE,
     config |-> [token |-> Undefined, devGuilds |-> Undefined,
                 globalUpdate |-> Undefined, color |-> Undefined,
                 name |-> Undefined, saveLogs |-> Undefined,
                 silent |-> Undefined, version |-> Undefined,
                 clockInterval |-> Undefined],
     logger |-> [enabled |-> Undefined, store |-> Undefined,
                 color |-> Undefined, name |-> Undefined,
                 version |-> Undefined]]

(***************************************************************************)
(* Clock (source/internal/clock.ts).  __callbacks is a Map from symbol to  *)
(* callback; a symbol is the serial number of the Symbol() call that made  *)
(* it, and 0 is a symbol no add has returned.  A callback is a token that  *)
(* tells how its promise settles.                                          *)
(***************************************************************************)
ClockCallbacks == {"resolves", "rejects"}

\* The symbol made by the n-th Symbol() call, as a value
Sym(n) == <<"symbol", n>>

\* The promise c(this.__client) of a callback
CallbackPromise(w, c) == IF c = "resolves" THEN Fulfilled(Undefined, w) ELSE Rejected(w)

\* add: const id = Symbol(...); this.__callbacks.set(id, callback); return id
add(callbacks, symbols, callback) ==
    [callbacks |-> MapSet(callbacks, symbols + 1, callback),
     symbols |-> symbols + 1,
     ret |-> Sym(symbols + 1)]

\* remove: return this.__callbacks.delete(id)
remove(callbacks, id) ==
    [callbacks |-> MapDelete(callbacks, id), ret |-> Bool(MapHas(callbacks, id))]

\* run with a map that stops at the first callback whose promise rejects
RECURSIVE runStoppingAtRejection(_, _, _)
runStoppingAtRejection(w, callbacks, i) ==
    IF i > Len(callbacks) THEN <<>>
    ELSE IF ~CallbackPromise(w, callbacks[i][2]).ok
         THEN <<[symbol |-> callbacks[i][1], rejected |-> TRUE]>>
         ELSE <<[symbol |-> callbacks[i][1], rejected |-> FALSE]>>
                 \o runStoppingAtRejection(w, callbacks, i + 1)

\* run: [...this.__callbacks.values()].map(async (c) => await autoCatch(c(client)))
\* from the i-th callback on: which callback was invoked, and whether the
\* promise the map made for it rejects
RECURSIVE run(_, _, _)
run(w, callbacks, i) ==
    IF i > Len(callbacks) THEN <<>>
    ELSE <<[symbol |-> callbacks[i][1],
            rejected |-> autoCatch(CallbackPromise(w, callbacks[i][2])).rethrown]>>
             \o run(w, callbacks, i + 1)

\* The interval timers of the runtime are numbered in the order of the
\* setInterval calls that made them; clock.active holds those that still
\* fire, clock.timer is this.__timer (0: undefined) and clock.intervals the
\* number of setInterval calls so far.
\* clearInterval(timer): a cleared or undefined timer is ignored
clearInterval(active, timer) == active \ {timer}

\* stop: clearInterval(this.__timer)
stop(c) == [c EXCEPT !.active = clearInterval(c.active, c.timer)]

\* start that does not call stop() first
startWithoutStopping(c) ==
    [c EXCEPT !.intervals = c.intervals + 1,
              !.timer = c.intervals + 1,
              !.active = c.active \cup {c.intervals + 1}]

\* start: this.stop(); this.__timer = setInterval(() => this.run(), delay)
start(c) ==
    [stop(c) EXCEPT !.intervals = c.intervals + 1,
                    !.timer = c.intervals + 1,
                    !.active = stop(c).active \cup {c.intervals + 1}]

\* A clock on which nothing was called yet
ClockIdle ==
    [callbacks |-> <<>>, symbols |-> 0, timer |-> 0, intervals |-> 0,
     active |-> {}, removed |-> {},
     op |-> "none", arg |-> 0, ret |-> Undefined, threw |-> FALSE,
     invoked |-> <<>>]

(***************************************************************************)
(* Call chains that are not awaited.  A call of the async method modify    *)
(* runs up to its first await and is resumed once per await;               *)
(* tasks.queue holds the chains waiting to be resumed, in the order in     *)
(* which they began to wait.                                               *)
(***************************************************************************)
Chains == {"first", "second"}

\* A chain on which modify was not called yet
IdleChain ==
    [pc |-> "idle", id |-> <<>>, fn |-> "none", data |-> Undefined,
     value |-> Undefined, ret |-> Undefined, threw |-> "none"]

\* No concurrent call chain is running
TasksIdle == [queue |-> <<>>, chain |-> [c \in Chains |-> IdleChain]]

\* The chains that may be resumed next: a continuation that waits for a
\* value that is no promise is a microtask, and microtasks run in order;
\* one that waits for the file system runs when its call completes
Ready ==
    IF tasks.queue = <<>> THEN {}
    ELSE IF ReturnsPromise(kind)
         THEN {tasks.queue[i] : i \in 1..Len(tasks.queue)}
         ELSE {Head(tasks.queue)}

\* The queue without the chain c
Dequeue(queue, c) == SelectSeq(queue, LAMBDA x : x # c)

\* set that computes the value from what the store holds when it writes
WriteBackFresh(k, w, chain) ==
    Set(k, w, chain.id,
        ApplyModifier(chain.fn, Get(k, w, chain.id, DefaultOptions).ret, chain.id),
        DefaultOptions)

\* return await this.set(id, data, options)
WriteBack(k, w, chain) == Set(k, w, chain.id, chain.value, DefaultOptions)

(***************************************************************************)
(* ComponentBuilder (utility/builder/component.ts).  __components is the   *)
(* list of the added components; build copies it to `rows` and runs its    *)
(* while loop, one iteration at a time, until the loop condition fails.    *)
(***************************************************************************)
\* this.__components.push(component)
component(list, c) == Append(list, c)

\* this.__components = []; this.__components.push(...components)
components(added) == <<>> \o added

\* new MessageActionRow().addComponents(...components)
MessageActionRow(content) == <<"row", content>>

\* rows.length > 0 && rows.length < 5
LoopCondition(rows) == Len(rows) > 0 /\ Len(rows) < 5

\* const components = rows.splice(0, 5): the elements removed from rows
Spliced(rows) == SubSeq(rows, 1, IF Len(rows) < 5 THEN Len(rows) ELSE 5)

\* One iteration of the loop of build: rows afterwards.  The row made of
\* the removed elements is pushed back to rows, nothing is pushed to result
LoopBody(rows) ==
    Append(SubSeq(rows, Len(Spliced(rows)) + 1, Len(rows)),
           MessageActionRow(Spliced(rows)))

\* A builder made by new ComponentBuilder()
BuilderIdle ==
    [list |-> <<>>, pc |-> "idle", rows |-> <<>>, result |-> <<>>,
     iterations |-> 0, ret |-> <<>>]

(***************************************************************************)
(* Resolver harness: the inputs are drawn in Init, the actions apply       *)
(* _idPath once and then once more to its own output.                      *)
(***************************************************************************)
ResolverAlphabet == {"a", "n", ".", "/", "\\"}

ResolverIds == StringsUpTo(ResolverAlphabet, MaxIdLen)

ResolverExts == {NoExt, defaultExtension, <<"n">>}

NoString == <<"unset">>

RsIdle ==
    [id |-> <<>>, ext |-> NoExt, once |-> NoString, twice |-> NoString,
     ext2 |-> NoExt, other |-> NoString]

ResolveOnce ==
    /\ rs.once = NoString
    /\ rs' = [rs EXCEPT !.once = idPath(rs.id, rs.ext)]
    /\ UNCHANGED storeVars

ResolveTwice ==
    /\ rs.once # NoString
    /\ rs.twice = NoString
    /\ rs' = [rs EXCEPT !.twice = idPath(rs.once, rs.ext)]
    /\ UNCHANGED storeVars

\* _idPath(id, ext2): the same identifier under the second extension
ResolveOther ==
    /\ rs.other = NoString
    /\ rs' = [rs EXCEPT !.other = idPath(rs.id, rs.ext2)]
    /\ UNCHANGED storeVars

(***************************************************************************)
(* The calls the model's callers make                                      *)
(***************************************************************************)
RawIds == {<<"x">>, <<"a", "/", "b">>}

\* "x.json" stored under the extension "n" resolves to the location of "x"
AliasId == <<"x", ".", "j", "s", "o", "n">>

RawOptions == Options(<<"n">>, FALSE, FALSE)

FlagOptions == {Options(NoExt, c, f) : c \in BOOLEAN, f \in BOOLEAN}

Requests == (RawIds \X FlagOptions) \cup {<<AliasId, RawOptions>>}

Values == {Five, Value123}

\* The options the batch and predicate operations are called with
BatchOptions == {DefaultOptions}

\* The entries setAll is called with
BatchEntries == {<<<<"x">>, Five>>, <<<<"a", "/", "b">>, Value123>>}

ListDirs == {<<>>, <<"a">>}

SeqsUpTo(S, n) == UNION {[1..m -> S] : m \in 0..n}

DataDir == <<"d", "a", "t", "a">>

DeniablePaths == {Normalize(idPath(id, NoExt)) : id \in RawIds}

NoCall == [op |-> "none", args |-> <<>>, options |-> DefaultOptions,
           ret |-> Undefined, threw |-> "none", calls |-> <<>>]

Init ==
    /\ kind \in {"Cache", "File", "Dual"}
    /\ mem = <<>>
    /\ dirs \in {{<<>>}, {<<>>, <<DataDir>>}}
    /\ files = <<>>
    /\ denied \in {D \in SUBSET DeniablePaths : Cardinality(D) <= MaxDenied}
    /\ last = NoCall
    /\ rs = RsIdle
    /\ am = AmIdle
    /\ bot = BotIdle
    /\ clock = ClockIdle
    /\ tasks = TasksIdle
    /\ builder = BuilderIdle

Now == World(mem, dirs, files)

\* The record of the call `op` that completed with outcome `out`
Completed(op, args, options, out) ==
    [op |-> op, args |-> args, options |-> options,
     ret |-> out.ret, threw |-> out.threw, calls |-> out.calls]

CallHas ==
    \E r \in Requests :
        \E out \in {Has(kind, Now, r[1], r[2])} :
            /\ mem' = out.w.mem
            /\ dirs' = out.w.dirs
            /\ files' = out.w.files
            /\ last' = Completed("has", [id |-> r[1]], r[2], out)
            /\ UNCHANGED <<kind, denied, rs, am, bot, clock, tasks, builder>>

CallGet ==
    \E r \in Requests :
        \E out \in {Get(kind, Now, r[1], r[2])} :
            /\ mem' = out.w.mem
            /\ dirs' = out.w.dirs
            /\ files' = out.w.files
            /\ last' = Completed("get", [id |-> r[1]], r[2], out)
            /\ UNCHANGED <<kind, denied, rs, am, bot, clock, tasks, builder>>

CallSet ==
    \E r \in Requests, data \in Values :
        \E out \in {Set(kind, Now, r[1], data, r[2])} :
            /\ mem' = out.w.mem
            /\ dirs' = out.w.dirs
            /\ files' = out.w.files
            /\ last' = Completed("set", [id |-> r[1], data |-> data], r[2], out)
            /\ UNCHANGED <<kind, denied, rs, am, bot, clock, tasks, builder>>

CallDel ==
    \E r \in Requests :
        \E out \in {Del(kind, Now, r[1], r[2])} :
            /\ mem' = out.w.mem
            /\ dirs' = out.w.dirs
            /\ files' = out.w.files
            /\ last' = Completed("del", [id |-> r[1]], r[2], out)
            /\ UNCHANGED <<kind, denied, rs, am, bot, clock, tasks, builder>>

CallList ==
    \E dir \in ListDirs, options \in FlagOptions :
        \E order \in Orders(Dirents(Now, Normalize(dirPath(dir)))) :
            \E out \in {List(kind, Now, dir, options, order)} :
                /\ mem' = out.w.mem
                /\ dirs' = out.w.dirs
                /\ files' = out.w.files
                /\ last' = Completed("list", [dir |-> dir, order |-> order],
                                     options, out)
                /\ UNCHANGED <<kind, denied, rs, am, bot, clock, tasks, builder>>

CallSetAll ==
    \E list \in SeqsUpTo(BatchEntries, MaxBatch), options \in BatchOptions :
        \E out \in {setAll(kind, Now, list, options)} :
            /\ mem' = out.w.mem
            /\ dirs' = out.w.dirs
            /\ files' = out.w.files
            /\ last' = Completed("setAll", [list |-> list], options, out)
            /\ UNCHANGED <<kind, denied, rs, am, bot, clock, tasks, builder>>

CallDelAll ==
    \E ids \in SeqsUpTo(RawIds, MaxBatch), options \in BatchOptions :
        \E out \in {delAll(kind, Now, ids, options)} :
            /\ mem' = out.w.mem
            /\ dirs' = out.w.dirs
            /\ files' = out.w.files
            /\ last' = Completed("delAll", [ids |-> ids], options, out)
            /\ UNCHANGED <<kind, denied, rs, am, bot, clock, tasks, builder>>

CallEnsure ==
    \E id \in RawIds, fallback \in Values, options \in BatchOptions :
        \E out \in {ensure(kind, Now, id, fallback, options)} :
            /\ mem' = out.w.mem
            /\ dirs' = out.w.dirs
            /\ files' = out.w.files
            /\ last' = Completed("ensure", [id |-> id, fallback |-> fallback], options, out)
            /\ UNCHANGED <<kind, denied, rs, am, bot, clock, tasks, builder>>

CallModify ==
    \E id \in RawIds, fn \in Modifiers, options \in BatchOptions :
        \E out \in {modify(kind, Now, id, fn, options)} :
            /\ mem' = out.w.mem
            /\ dirs' = out.w.dirs
            /\ files' = out.w.files
            /\ last' = Completed("modify", [id |-> id, fn |-> fn], options, out)
            /\ UNCHANGED <<kind, denied, rs, am, bot, clock, tasks, builder>>

CallModifyIf ==
    \E id \in RawIds, fn \in Modifiers, predicate \in Predicates,
       options \in BatchOptions :
        \E out \in {modifyIf(kind, Now, id, fn, predicate, options)} :
            /\ mem' = out.w.mem
            /\ dirs' = out.w.dirs
            /\ files' = out.w.files
            /\ last' = Completed("modifyIf", [id |-> id, fn |-> fn, predicate |-> predicate], options, out)
            /\ UNCHANGED <<kind, denied, rs, am, bot, clock, tasks, builder>>

CallModifyAll ==
    \E ids \in SeqsUpTo(RawIds, MaxBatch), fn \in Modifiers,
       options \in BatchOptions :
        \E out \in {modifyAll(kind, Now, ids, fn, options)} :
            /\ mem' = out.w.mem
            /\ dirs' = out.w.dirs
            /\ files' = out.w.files
            /\ last' = Completed("modifyAll", [ids |-> ids, fn |-> fn], options, out)
            /\ UNCHANGED <<kind, denied, rs, am, bot, clock, tasks, builder>>

CallModifyAllIf ==
    \E ids \in SeqsUpTo(RawIds, MaxBatch), fn \in Modifiers,
       predicate \in Predicates, options \in BatchOptions :
        \E out \in {modifyAllIf(kind, Now, ids, fn, predicate, options)} :
            /\ mem' = out.w.mem
            /\ dirs' = out.w.dirs
            /\ files' = out.w.files
            /\ last' = Completed("modifyAllIf", [ids |-> ids, fn |-> fn, predicate |-> predicate], options, out)
            /\ UNCHANGED <<kind, denied, rs, am, bot, clock, tasks, builder>>

\* The primitive operations on a store of any of the three kinds
Next ==
    \/ CallHas
    \/ CallGet
    \/ CallSet
    \/ CallDel
    \/ CallList

Spec == Init /\ [][Next]_vars

\* The batch and predicate layer on a store of any of the three kinds
NextBatch ==
    \/ CallSetAll
    \/ CallDelAll
    \/ CallEnsure
    \/ CallModify
    \/ CallModifyIf
    \/ CallModifyAll
    \/ CallModifyAllIf

SpecBatch == Init /\ [][NextBatch]_vars

\* The resolver harness
InitResolve ==
    /\ kind = "Cache"
    /\ mem = <<>>
    /\ dirs = {<<>>}
    /\ files = <<>>
    /\ denied = {}
    /\ last = NoCall
    /\ rs \in [id : ResolverIds, ext : ResolverExts,
               once : {NoString}, twice : {NoString},
               ext2 : {NoExt}, other : {NoString}]
    /\ am = AmIdle
    /\ bot = BotIdle
    /\ clock = ClockIdle
    /\ tasks = TasksIdle
    /\ builder = BuilderIdle

NextResolve ==
    \/ ResolveOnce
    \/ ResolveTwice

SpecResolve == InitResolve /\ [][NextResolve]_vars

(***************************************************************************)
(* Properties                                                              *)
(***************************************************************************)
\* The resolved location of an identifier under the default options, and
\* the file system path it names
Location(id) == idPath(id, NoExt)

FilePath(id) == Normalize(Location(id))

\* The environment lets the file system calls on the entry's path through
Permitted(id) == FilePath(id) \notin denied

NoFileOnly == Options(NoExt, FALSE, TRUE)

NoCacheOnly == Options(NoExt, TRUE, FALSE)

\* C1: round-trip on the Cache and on the File backend: set(id, v) with
\* default options on a store that holds no entry at id, followed by get(id),
\* returns v (the environment permitting the file system calls).
C1_RoundTripStep ==
    (/\ kind \in {"Cache", "File"}
     /\ last'.op = "set"
     /\ last'.options = DefaultOptions
     /\ Permitted(last'.args.id)
     /\ ~IsTrue(Has(kind, Now, last'.args.id, DefaultOptions).ret))
    => LET got == Get(kind, Now', last'.args.id, DefaultOptions)
       IN  got.threw = "none" /\ got.ret = last'.args.data

C1_RoundTrip == [][C1_RoundTripStep]_vars

\* C2: ensure(id, f) on a store of any kind that holds no entry at id (and
\* that a set(id, f) would succeed on) returns f and persists it, so that a
\* following get(id) returns f; ensure(id, g) on a store holding f at id
\* returns f and leaves f stored.
C2_EnsureStep ==
    (/\ last'.op = "ensure"
     /\ last'.options = DefaultOptions
     /\ Permitted(last'.args.id))
    => LET id == last'.args.id
           present == Has(kind, Now, id, DefaultOptions)
           before == Get(kind, Now, id, DefaultOptions)
           writable == Set(kind, Now, id, last'.args.fallback, DefaultOptions)
           after == Get(kind, Now', id, DefaultOptions)
       IN  /\ (~IsTrue(present.ret) /\ IsTrue(writable.ret))
                => /\ last'.threw = "none"
                   /\ last'.ret = last'.args.fallback
                   /\ after.ret = last'.args.fallback
           /\ (IsTrue(present.ret) /\ before.threw = "none")
                => /\ last'.ret = before.ret
                   /\ after.ret = before.ret

C2_EnsureSemantics == [][C2_EnsureStep]_vars

\* C3: setAll calls set for every entry of the list, in input order, also
\* after an earlier set returned false.
C3_SetAllAttemptsAll ==
    (last.op = "setAll" /\ last.threw = "none")
    => /\ Len(last.calls) = Len(last.args.list)
       /\ \A i \in 1..Len(last.calls) :
            /\ last.calls[i].op = "set"
            /\ last.calls[i].id = last.args.list[i][1]
            /\ last.calls[i].data = last.args.list[i][2]

\* The identifiers the calls of a batch operation begin work on: one has per
\* modify / modifyIf, one del per del
RECURSIVE CallIds(_, _)
CallIds(calls, op) ==
    IF calls = <<>> THEN <<>>
    ELSE IF Head(calls).op = op THEN <<Head(calls).id>> \o CallIds(Tail(calls), op)
    ELSE CallIds(Tail(calls), op)

\* C4: delAll, modifyAll and modifyAllIf apply del / modify / modifyIf to
\* every identifier of the list, in input order, also after an earlier
\* identifier yielded false.
C4_BatchAttemptsAll ==
    /\ (last.op = "delAll" /\ last.threw = "none")
         => CallIds(last.calls, "del") = last.args.ids
    /\ (last.op \in {"modifyAll", "modifyAllIf"} /\ last.threw = "none")
         => CallIds(last.calls, "has") = last.args.ids

\* C5: cache as fallback.  After Dual.set(id, v) returned true and the next
\* call removed only the cache's entry of id (Dual.del with noFile),
\* Dual.get(id) returns v and a get on the cache alone returns undefined.
C5_FallbackStep ==
    (/\ kind = "Dual"
     /\ last.op = "set"
     /\ last.options = DefaultOptions
     /\ IsTrue(last.ret)
     /\ last'.op = "del"
     /\ last'.options = NoFileOnly
     /\ last'.args.id = last.args.id)
    => LET dual == DualGet(Now', last.args.id, DefaultOptions)
           cache == CacheGet(Now', last.args.id, DefaultOptions)
       IN  /\ dual.threw = "none"
           /\ dual.ret = last.args.data
           /\ cache.ret = Undefined

C5_CacheAsFallback == [][C5_FallbackStep]_vars

\* A Dual store whose cache entry of id was just removed while the file
\* still serves a value
C5_Witness ==
    /\ kind = "Dual"
    /\ last.op = "del"
    /\ last.options = NoFileOnly
    /\ ~MapHas(mem, Location(last.args.id))
    /\ FilePath(last.args.id) \in DOMAIN files
    /\ DualGet(Now, last.args.id, DefaultOptions).ret \in Values

\* C6: Dual.set(id, v, {noCache: true}) returns false and changes neither
\* the cache nor the file system.
C6_NoCacheStep ==
    (/\ kind = "Dual"
     /\ last'.op = "set"
     /\ last'.options.noCache)
    => /\ last'.ret = Bool(FALSE)
       /\ last'.threw = "none"
       /\ mem' = mem
       /\ files' = files
       /\ dirs' = dirs

C6_NoCacheShortCircuit == [][C6_NoCacheStep]_vars

\* Dual.set with noCache (and without noFile) returned on a store that holds
\* entries
C6_Witness ==
    /\ kind = "Dual"
    /\ last.op = "set"
    /\ last.options = NoCacheOnly
    /\ last.ret = Bool(FALSE)
    /\ mem # <<>>
    /\ DOMAIN files # {}

\* C7: after Dual.del(id) with default options, the environment permitting
\* the file system calls, the entry is absent from the cache and from the
\* file system.
C7_DelStep ==
    (/\ kind = "Dual"
     /\ last'.op = "del"
     /\ last'.options = DefaultOptions
     /\ Permitted(last'.args.id))
    => /\ ~MapHas(mem', Location(last'.args.id))
       /\ FilePath(last'.args.id) \notin DOMAIN files'
       /\ ~IsTrue(DualHas(Now', last'.args.id, DefaultOptions).ret)

C7_DualDelAppliesToBoth == [][C7_DelStep]_vars

\* C8: resolving a resolved entry location again yields the same string.
C8_ResolutionIdempotent ==
    rs.twice # NoString => rs.twice = rs.once

\* The pretty-printed JSON text of { value: 123 }
Value123Text ==
    <<"{", "\n", "\t", "\"", "v", "a", "l", "u", "e", "\"", ":", " ",
      "1", "2", "3", "\n", "}">>

NestedId == <<"a", "/", "b">>

NestedFile == <<DataDir, <<"a">>, <<"b", ".", "j", "s", "o", "n">>>>

\* C9: FileStorage.set("a/b", { value: 123 }) returns true and leaves the
\* tab-indented JSON at data/a/b.json, whichever directories existed before;
\* a del("a/b") right after it returns true and has("a/b") is false then.
C9_SetStep ==
    /\ (/\ kind = "File"
        /\ last'.op = "set"
        /\ last'.options = DefaultOptions
        /\ last'.args.id = NestedId
        /\ last'.args.data = Value123
        /\ Permitted(NestedId))
       => /\ last'.ret = Bool(TRUE)
          /\ NestedFile \in DOMAIN files'
          /\ files'[NestedFile] = Value123Text
    /\ (/\ kind = "File"
        /\ last.op = "set"
        /\ last.options = DefaultOptions
        /\ last.args.id = NestedId
        /\ IsTrue(last.ret)
        /\ last'.op = "del"
        /\ last'.options = DefaultOptions
        /\ last'.args.id = NestedId)
       => /\ last'.ret = Bool(TRUE)
          /\ ~IsTrue(FileHas(Now', NestedId, DefaultOptions).ret)

C9_SetCreatesParents == [][C9_SetStep]_vars

\* The file system calls a File operation decides its result on
C10_ReadFails(id, options) == ~ReadFile(Now, idPath(id, options.extension)).ok

C10_WriteFails(id, data, options) ==
    LET path == idPath(id, options.extension)
        made == Mkdir(Now, SubSeq(path, 1, LastIndexOf(path, "/") - 1))
        raw == IF IsRawExtension(options) THEN ToStr(data) ELSE Stringify(data, 0)
    IN  \/ ~WriteFile(made.w, path, raw).ok
        \/ ~made.ok /\ Parent(Normalize(path)) \notin dirs

\* C10: no File operation throws because a file system call failed; a
\* failed read makes has false and get undefined, a failed write or
\* directory creation makes set false, a failed removal makes del false and
\* a failed listing makes list empty.
C10_FileStep ==
    (kind = "File" /\ ~last'.options.noFile)
    => /\ last'.threw # "fs"
       /\ (last'.op = "has" /\ C10_ReadFails(last'.args.id, last'.options))
            => last'.ret = Bool(FALSE)
       /\ (last'.op = "get" /\ C10_ReadFails(last'.args.id, last'.options))
            => last'.ret = Undefined /\ last'.threw = "none"
       /\ (last'.op = "set"
           /\ C10_WriteFails(last'.args.id, last'.args.data, last'.options))
            => last'.ret = Bool(FALSE)
       /\ (last'.op = "del"
           /\ ~Rm(Now, idPath(last'.args.id, last'.options.extension)).ok)
            => last'.ret = Bool(FALSE)
       /\ (last'.op = "list"
           /\ ~Readdir(Now, dirPath(last'.args.dir), last'.args.order).ok)
            => last'.ret = <<>>

C10_FileNeverThrowsOnIO == [][C10_FileStep]_vars

\* A File set whose write was rejected and a File get on a missing file
C10_Witness ==
    /\ kind = "File"
    /\ ~last.options.noFile
    /\ \/ /\ last.op = "set"
          /\ last.ret = Bool(FALSE)
          /\ FilePath(last.args.id) \in denied
       \/ /\ last.op = "get"
          /\ last.ret = Undefined
          /\ idPath(last.args.id, last.options.extension) \notin
                {Location(id) : id \in RawIds}

\* The text of the file the identifier resolves to under the options, and
\* whether JSON.parse rejects it
Malformed(id, options) ==
    /\ ~IsRawExtension(options)
    /\ Normalize(idPath(id, options.extension)) \in DOMAIN files
    /\ Normalize(idPath(id, options.extension)) \notin denied
    /\ ~JSONParse(files[Normalize(idPath(id, options.extension))]).ok

\* C11: get on a File or Dual store (the cache holding nothing at the
\* location) of an entry whose file is not valid JSON returns undefined and
\* does not throw, and File.list and Dual.list do not throw either.
C11_ParseStep ==
    /\ (/\ kind \in {"File", "Dual"}
        /\ last'.op = "get"
        /\ ~last'.options.noFile
        /\ Malformed(last'.args.id, last'.options)
        /\ CacheGet(Now, last'.args.id, last'.options).ret = Undefined)
       => /\ last'.threw = "none"
          /\ last'.ret = Undefined
    /\ (kind \in {"File", "Dual"} /\ last'.op = "list")
       => last'.threw = "none"

C11_ParseFailureIsAbsence == [][C11_ParseStep]_vars

(***************************************************************************)
(* Directory scoping: a store whose callers keep entries in the            *)
(* directories "a" and "a2" and list either directory.                     *)
(***************************************************************************)
ScopedIds == {<<"a", "/", "b">>, <<"a", "2", "/", "b">>}

ScopedDirs == {<<"a">>, <<"a", "2">>}

ScopeSet ==
    \E id \in ScopedIds, data \in Values :
        \E out \in {Set(kind, Now, id, data, DefaultOptions)} :
            /\ mem' = out.w.mem
            /\ dirs' = out.w.dirs
            /\ files' = out.w.files
            /\ last' = Completed("set", [id |-> id, data |-> data],
                                 DefaultOptions, out)
            /\ UNCHANGED <<kind, denied, rs, am, bot, clock, tasks, builder>>

ScopeList ==
    \E dir \in ScopedDirs :
        \E order \in Orders(Dirents(Now, Normalize(dirPath(dir)))) :
            \E out \in {List(kind, Now, dir, DefaultOptions, order)} :
                /\ mem' = out.w.mem
                /\ dirs' = out.w.dirs
                /\ files' = out.w.files
                /\ last' = Completed("list", [dir |-> dir, order |-> order],
                                     DefaultOptions, out)
                /\ UNCHANGED <<kind, denied, rs, am, bot, clock, tasks, builder>>

NextScope ==
    \/ ScopeSet
    \/ ScopeList

SpecScope == Init /\ [][NextScope]_vars

\* C12: every pair list(dir) returns lies under root/dir/: the first two
\* components of its location are the data directory and dir, so that an
\* entry under "a2" is never returned by list("a").
C12_DirectoryScoping ==
    (last.op = "list" /\ last.threw = "none")
    => \A i \in 1..Len(last.ret) :
          /\ Len(Normalize(last.ret[i][1])) > 2
          /\ SubSeq(Normalize(last.ret[i][1]), 1, 2) = <<DataDir, last.args.dir>>

\* list("a") returned the entry of "a" while the cache also holds an entry
\* under "a2"
C12_Witness ==
    /\ last.op = "list"
    /\ last.args.dir = <<"a">>
    /\ MapHas(mem, Location(<<"a", "2", "/", "b">>))
    /\ Len(last.ret) > 0
    /\ \E i \in 1..Len(last.ret) : last.ret[i][1] = Location(<<"a", "/", "b">>)

\* The indices of the pairs of a listing whose location names the file f
PairsOf(listing, f) == {i \in 1..Len(listing) : Normalize(listing[i][1]) = f}

\* C13: FileStorage.list(dir) holds, for every readable JSON file lying
\* directly in the resolved directory, exactly one pair, whose value is the
\* stored (parsed) value of that file.
C13_FileListReturnsValues ==
    (/\ kind = "File"
     /\ last.op = "list"
     /\ last.options = DefaultOptions
     /\ last.threw = "none")
    => \A f \in DOMAIN files :
          (/\ Parent(f) = Normalize(dirPath(last.args.dir))
           /\ f \notin denied
           /\ JSONParse(files[f]).ok)
          => /\ Cardinality(PairsOf(last.ret, f)) = 1
             /\ \A i \in PairsOf(last.ret, f) :
                   last.ret[i][2] = JSONParse(files[f]).val

\* C14: Dual.list(dir) carries no location twice: an entry held by the cache
\* and by the file system appears once.
C14_DualListDeduplicated ==
    (kind = "Dual" /\ last.op = "list" /\ last.threw = "none")
    => \A i, j \in 1..Len(last.ret) :
          last.ret[i][1] = last.ret[j][1] => i = j

(***************************************************************************)
(* expect called with per-call options on a store filled by set            *)
(***************************************************************************)
CallExpect ==
    \E r \in Requests, predicate \in Predicates :
        \E out \in {expect(kind, Now, r[1], predicate, r[2])} :
            /\ mem' = out.w.mem
            /\ dirs' = out.w.dirs
            /\ files' = out.w.files
            /\ last' = Completed("expect", [id |-> r[1], predicate |-> predicate],
                                 r[2], out)
            /\ UNCHANGED <<kind, denied, rs, am, bot, clock, tasks, builder>>

NextExpect ==
    \/ CallSet
    \/ CallExpect

SpecExpect == Init /\ [][NextExpect]_vars

\* C15: expect(id, predicate, opts) is true iff the entry addressed by
\* (id, opts) exists and the predicate holds of its value, and the predicate
\* is not invoked when that entry is absent.
C15_ExpectStep ==
    (/\ last'.op = "expect"
     /\ last'.threw = "none"
     /\ Has(kind, Now, last'.args.id, last'.options).threw = "none"
     /\ Get(kind, Now, last'.args.id, last'.options).threw = "none")
    => /\ IsTrue(last'.ret)
            <=> /\ IsTrue(Has(kind, Now, last'.args.id, last'.options).ret)
                /\ ApplyPredicate(last'.args.predicate,
                                  Get(kind, Now, last'.args.id, last'.options).ret,
                                  last'.args.id)
       /\ ~IsTrue(Has(kind, Now, last'.args.id, last'.options).ret)
            => \A i \in 1..Len(last'.calls) : last'.calls[i].op # "predicate"

C15_ExpectSameOptions == [][C15_ExpectStep]_vars

\* The operations of the calls an outcome records, in order
CallOps(calls) == [i \in 1..Len(calls) |-> calls[i].op]

\* C16: modify(id, fn) on an absent entry returns false, invokes neither fn
\* nor set and leaves the store unchanged; on a present entry it invokes fn
\* once on the current value, calls set(id, fn(value)) exactly once and
\* returns that set's result.
C16_ModifyStep ==
    (last'.op = "modify" /\ last'.threw = "none")
    => LET id == last'.args.id
           options == last'.options
           value == Get(kind, Now, id, options).ret
           data == ApplyModifier(last'.args.fn, value, id)
       IN  IF IsTrue(Has(kind, Now, id, options).ret)
           THEN /\ CallOps(last'.calls) = <<"has", "get", "modifier", "set">>
                /\ last'.calls[3].data = value
                /\ last'.calls[4].id = id
                /\ last'.calls[4].data = data
                /\ last'.ret = Set(kind, Now, id, data, options).ret
                /\ Now' = Set(kind, Now, id, data, options).w
           ELSE /\ last'.ret = Bool(FALSE)
                /\ CallOps(last'.calls) = <<"has">>
                /\ Now' = Now

C16_ModifySemantics == [][C16_ModifyStep]_vars

\* A modify that replaced the stored 5 by { value: 123 }
C16_Witness ==
    /\ last.op = "modify"
    /\ IsTrue(last.ret)
    /\ Len(last.calls) = 4
    /\ last.calls[3].data = Five
    /\ Get(kind, Now, last.args.id, last.options).ret = Value123

(***************************************************************************)
(* Payloads: a store whose callers also store null                         *)
(***************************************************************************)
Payloads == {Null, Five}

PayloadSet ==
    \E id \in RawIds, data \in Payloads :
        \E out \in {Set(kind, Now, id, data, DefaultOptions)} :
            /\ mem' = out.w.mem
            /\ dirs' = out.w.dirs
            /\ files' = out.w.files
            /\ last' = Completed("set", [id |-> id, data |-> data],
                                 DefaultOptions, out)
            /\ UNCHANGED <<kind, denied, rs, am, bot, clock, tasks, builder>>

PayloadGet ==
    \E id \in RawIds :
        \E out \in {Get(kind, Now, id, DefaultOptions)} :
            /\ mem' = out.w.mem
            /\ dirs' = out.w.dirs
            /\ files' = out.w.files
            /\ last' = Completed("get", [id |-> id], DefaultOptions, out)
            /\ UNCHANGED <<kind, denied, rs, am, bot, clock, tasks, builder>>

NextPayload ==
    \/ PayloadSet
    \/ PayloadGet

SpecPayload == Init /\ [][NextPayload]_vars

\* C17: Dual.get(id) returns the cache's value whenever the cache holds an
\* entry at the resolved location, whatever the payload, and the file's value
\* otherwise.
C17_DualGetStep ==
    (kind = "Dual" /\ last'.op = "get" /\ last'.threw = "none")
    => IF MapHas(mem, Location(last'.args.id))
       THEN last'.ret = MapGet(mem, Location(last'.args.id))
       ELSE last'.ret = FileGet(Now, last'.args.id, last'.options).ret

C17_DualGetPrefersCache == [][C17_DualGetStep]_vars

(***************************************************************************)
(* An action manager of any of the four kinds: listeners are created,      *)
(* commands are defined and the client emits interactions.                 *)
(***************************************************************************)
ActionIds == {<<"a">>, <<"a", ";", "1", ";", "2">>, <<"b">>}

Interactions ==
    [type : Managers \ {"command"}, customId : ActionIds, commandName : {<<>>},
     repliable : BOOLEAN, deferred : BOOLEAN, ephemeral : BOOLEAN,
     sendFails : BOOLEAN]
    \cup
    [type : {"command"}, customId : {<<>>}, commandName : {<<"a">>, <<"b">>},
     repliable : BOOLEAN, deferred : BOOLEAN, ephemeral : BOOLEAN,
     sendFails : BOOLEAN]

InitAction ==
    /\ kind = "Cache"
    /\ mem = <<>>
    /\ dirs = {<<>>}
    /\ files = <<>>
    /\ denied = {}
    /\ last = NoCall
    /\ rs = RsIdle
    /\ am \in {[AmIdle EXCEPT !.manager = m] : m \in Managers}
    /\ bot = BotIdle
    /\ clock = ClockIdle
    /\ tasks = TasksIdle
    /\ builder = BuilderIdle

\* manager.create(id, callback)
AmCreate ==
    \E id \in ActionIds, callback \in Callbacks :
        \E made \in {IF am.manager = "command"
                     THEN definedCreate(am.definitions, am.callbacks, id, callback)
                     ELSE [callbacks |-> create(am.callbacks, id, callback),
                           threw |-> "none"]} :
            /\ am' = [am EXCEPT !.callbacks = made.callbacks,
                                !.op = "create",
                                !.args = [id |-> id, callback |-> callback],
                                !.interaction = NoInteraction,
                                !.effects = <<>>,
                                !.threw = made.threw]
            /\ UNCHANGED <<kind, mem, dirs, files, denied, last, rs, bot, clock, tasks, builder>>

\* manager.define(id, data), on the command manager
AmDefine ==
    /\ am.manager = "command"
    /\ \E id \in ActionIds :
          /\ am' = [am EXCEPT !.definitions = define(am.definitions, id, "definition"),
                              !.op = "define",
                              !.args = [id |-> id, callback |-> "none"],
                              !.interaction = NoInteraction,
                              !.effects = <<>>,
                              !.threw = "none"]
          /\ UNCHANGED <<kind, mem, dirs, files, denied, last, rs, bot, clock, tasks, builder>>

\* The client emits "interactionCreate"
AmInteraction ==
    \E interaction \in Interactions :
        /\ am' = [am EXCEPT !.op = "interaction",
                            !.args = [id |-> <<>>, callback |-> "none"],
                            !.interaction = interaction,
                            !.effects = createListener(am.manager, am.callbacks,
                                                       interaction),
                            !.threw = "none"]
        /\ UNCHANGED <<kind, mem, dirs, files, denied, last, rs, bot, clock, tasks, builder>>

NextAction ==
    \/ AmCreate
    \/ AmDefine
    \/ AmInteraction

SpecAction == InitAction /\ [][NextAction]_vars

\* C18: for a button, modal or select-menu interaction whose customId is
\* "id;d1;...;dn" and whose manager holds a callback under "id", the callback
\* is invoked with the context data [d1, ..., dn].
C18_IdDataReachesListener ==
    (/\ am.op = "interaction"
     /\ am.manager # "command"
     /\ am.interaction.type = am.manager
     /\ MapHas(am.callbacks, RawId(am.interaction.customId)))
    => /\ Len(am.effects) > 0
       /\ am.effects[1].op = "callback"
       /\ am.effects[1].callback = MapGet(am.callbacks, RawId(am.interaction.customId))
       /\ am.effects[1].data = Tail(Split(am.interaction.customId, ";"))

\* C19: on the command manager create(id, callback) throws "Missing
\* definition" and registers nothing while the raw id has no definition, and
\* registers the callback once it has one; a command interaction triggers
\* only the callback registered under its command name.
C19_DefinitionStep ==
    /\ (am.manager = "command" /\ am'.op = "create")
       => IF MapHas(am.definitions, RawId(am'.args.id))
          THEN /\ am'.threw = "none"
               /\ MapGet(am'.callbacks, RawId(am'.args.id)) = am'.args.callback
          ELSE /\ am'.threw = "Missing definition"
               /\ am'.callbacks = am.callbacks
    /\ (am.manager = "command" /\ am'.op = "interaction")
       => \A i \in 1..Len(am'.effects) :
             am'.effects[i].op = "callback"
             => /\ am'.interaction.type = "command"
                /\ am'.effects[i].id = am'.interaction.commandName
                /\ MapHas(am.definitions, am'.interaction.commandName)
                /\ am'.effects[i].callback
                     = MapGet(am.callbacks, am'.interaction.commandName)

C19_CommandNeedsDefinition == [][C19_DefinitionStep]_vars

\* A command interaction triggered the callback created after its definition
C19_Witness ==
    /\ am.manager = "command"
    /\ am.op = "interaction"
    /\ MapHas(am.definitions, am.interaction.commandName)
    /\ Len(am.effects) > 0
    /\ am.effects[1].op = "callback"

(***************************************************************************)
(* Construction of a BotClient from a configuration                        *)
(***************************************************************************)
Configs ==
    [token : {Str(<<"t">>)},
     devGuilds : {Undefined, Arr(<<Str(<<"g">>)>>)},
     globalUpdate : {Undefined, Bool(TRUE), Bool(FALSE)},
     color : {Undefined, Str(<<"#", "f", "f", "f">>)},
     name : {Undefined, Str(<<"B">>)},
     saveLogs : {Undefined, Bool(TRUE), Bool(FALSE)},
     silent : {Undefined, Bool(TRUE), Bool(FALSE)},
     version : {Undefined, Str(<<>>), Str(<<"1">>)},
     clockInterval : {Undefined, Num(5)}]

InitClient ==
    /\ kind = "Cache"
    /\ mem = <<>>
    /\ dirs = {<<>>}
    /\ files = <<>>
    /\ denied = {}
    /\ last = NoCall
    /\ rs = RsIdle
    /\ am = AmIdle
    /\ bot \in {[BotIdle EXCEPT !.config = c] : c \in Configs}
    /\ clock = ClockIdle
    /\ tasks = TasksIdle
    /\ builder = BuilderIdle

\* new BotClient(config)
NewBotClient ==
    /\ ~bot.constructed
    /\ \E cached \in {CacheSetEach(Now, ConfigEntries(bot.config), 1)} :
          /\ mem' = cached.mem
          /\ bot' = [bot EXCEPT !.constructed = TRUE,
                                !.logger = createLogger(cached)]
          /\ UNCHANGED <<kind, dirs, files, denied, last, rs, am, clock, tasks, builder>>

SpecClient == InitClient /\ [][NewBotClient]_vars

\* C20: the client's logger is enabled iff config.silent is absent or false.
C20_SilentDisablesLogging ==
    bot.constructed
    => (bot.logger.enabled = Bool(TRUE)
            <=> bot.config.silent \in {Undefined, Bool(FALSE)})

(***************************************************************************)
(* A clock whose callers add and remove callbacks, start and stop the      *)
(* timer and trigger the callbacks                                         *)
(***************************************************************************)
MaxSymbols == 3   \* number of add calls

MaxTimers == 3    \* number of start calls

InitClock ==
    /\ kind = "Cache"
    /\ mem = <<>>
    /\ dirs = {<<>>}
    /\ files = <<>>
    /\ denied = {}
    /\ last = NoCall
    /\ rs = RsIdle
    /\ am = AmIdle
    /\ bot = BotIdle
    /\ clock = ClockIdle
    /\ tasks = TasksIdle
    /\ builder = BuilderIdle

\* The clock after run() was called by `op`
Ran(op) ==
    [clock EXCEPT !.op = op, !.arg = 0,
                  !.ret = Undefined, !.threw = FALSE,
                  !.invoked = run(Now, clock.callbacks, 1)]

\* clock.add(callback)
ClockAdd ==
    /\ clock.symbols < MaxSymbols
    /\ \E callback \in ClockCallbacks :
          \E added \in {add(clock.callbacks, clock.symbols, callback)} :
              /\ clock' = [clock EXCEPT !.callbacks = added.callbacks,
                                        !.symbols = added.symbols,
                                        !.op = "add", !.arg = 0,
                                        !.ret = added.ret, !.threw = FALSE,
                                        !.invoked = <<>>]
              /\ UNCHANGED <<kind, mem, dirs, files, denied, last, rs, am, bot, tasks, builder>>

\* clock.remove(id), with a symbol an add has returned or with symbol 0
ClockRemove ==
    \E id \in 0..clock.symbols :
        \E removed \in {remove(clock.callbacks, id)} :
            /\ clock' = [clock EXCEPT !.callbacks = removed.callbacks,
                                      !.removed = clock.removed \cup {id},
                                      !.op = "remove", !.arg = id,
                                      !.ret = removed.ret, !.threw = FALSE,
                                      !.invoked = <<>>]
            /\ UNCHANGED <<kind, mem, dirs, files, denied, last, rs, am, bot, tasks, builder>>

\* clock.run()
ClockRun ==
    /\ clock' = Ran("run")
    /\ UNCHANGED <<kind, mem, dirs, files, denied, last, rs, am, bot, tasks, builder>>

\* clock.start(): stop(), then setInterval
ClockStart ==
    /\ clock.intervals < MaxTimers
    /\ clock' = [start(clock) EXCEPT !.op = "start", !.arg = 0,
                              !.ret = Undefined, !.threw = FALSE,
                              !.invoked = <<>>]
    /\ UNCHANGED <<kind, mem, dirs, files, denied, last, rs, am, bot, tasks, builder>>

\* clock.stop(): clearInterval
ClockStop ==
    /\ clock' = [stop(clock) EXCEPT !.op = "stop", !.arg = 0,
                              !.ret = Undefined, !.threw = FALSE,
                              !.invoked = <<>>]
    /\ UNCHANGED <<kind, mem, dirs, files, denied, last, rs, am, bot, tasks, builder>>

\* The interval elapses: () => this.run()
ClockTick ==
    /\ clock.active # {}
    /\ clock' = Ran("tick")
    /\ UNCHANGED <<kind, mem, dirs, files, denied, last, rs, am, bot, tasks, builder>>

NextClock ==
    \/ ClockAdd
    \/ ClockRemove
    \/ ClockRun
    \/ ClockStart
    \/ ClockStop
    \/ ClockTick

SpecClock == InitClock /\ [][NextClock]_vars

\* The symbols add has returned and remove was not called with
Registered == (1..clock.symbols) \ clock.removed

\* C21: add returns a symbol no earlier add returned; remove(id) returns
\* true iff id was added and not removed since; run invokes exactly the
\* callbacks added and not removed, each once, whether or not one of them
\* rejects, and neither run nor a promise it returns fails.
C21_ClockStep ==
    /\ clock'.op = "add"
        => /\ Tag(clock'.ret) = "symbol"
           /\ clock'.ret \notin {Sym(n) : n \in 1..clock.symbols}
    /\ clock'.op = "remove"
        => clock'.ret = Bool(clock'.arg \in Registered)
    /\ clock'.op \in {"run", "tick"}
        => /\ {clock'.invoked[i].symbol : i \in 1..Len(clock'.invoked)} = Registered
           /\ Len(clock'.invoked) = Cardinality(Registered)
           /\ \A i \in 1..Len(clock'.invoked) : ~clock'.invoked[i].rejected
           /\ ~clock'.threw

C21_ClockRunsRegistered == [][C21_ClockStep]_vars

\* A run after a removal, with a rejecting callback ahead of another one
C21_Witness ==
    /\ clock.op = "run"
    /\ clock.removed \cap (1..clock.symbols) # {}
    /\ Len(clock.invoked) = 2
    /\ clock.callbacks[1][2] = "rejects"

\* The resolved location of the entry a call names
LocationOf(call) == idPath(call.args.id, call.options.extension)

\* The file step of a Dual set or del, attempted after the cache step
FileStep(call, w) ==
    IF call.op = "set"
    THEN FileSet(w, call.args.id, call.args.data, call.options)
    ELSE FileDel(w, call.args.id, call.options)

\* Whether the cache step of a Dual set or del returns true
CacheStepTrue(call) ==
    /\ ~call.options.noCache
    /\ call.op = "del" => MapHas(mem, LocationOf(call))

\* C22: Dual.set and Dual.del perform the cache step first and attempt the
\* file step only if the cache step returned true; the result is true iff
\* both steps returned true, and when the cache step returns false the file
\* system is left unchanged.
C22_WriteThroughStep ==
    (kind = "Dual" /\ last'.op \in {"set", "del"})
    => /\ last'.threw = "none"
       /\ IF CacheStepTrue(last')
          THEN /\ last'.op = "set" => MapGet(mem', LocationOf(last')) = last'.args.data
               /\ last'.op = "del" => ~MapHas(mem', LocationOf(last'))
               /\ last'.ret = FileStep(last', World(mem', dirs, files)).ret
               /\ files' = FileStep(last', World(mem', dirs, files)).w.files
               /\ dirs' = FileStep(last', World(mem', dirs, files)).w.dirs
          ELSE /\ last'.ret = Bool(FALSE)
               /\ UNCHANGED <<mem, files, dirs>>

C22_DualWriteThroughOrder == [][C22_WriteThroughStep]_vars

\* A del whose cache step found nothing while the entry's file exists
C22_Witness ==
    /\ kind = "Dual"
    /\ last.op = "del"
    /\ last.options = DefaultOptions
    /\ last.ret = Bool(FALSE)
    /\ FilePath(last.args.id) \in DOMAIN files

\* The options of a call with the file skipped
CacheAlone(options) == [options EXCEPT !.noFile = TRUE]

\* C23: has, get and list of the Dual store change neither the cache nor the
\* file system; after a get the file answered, a get on the cache alone still
\* returns nothing.
C23_ReadStep ==
    (kind = "Dual" /\ last'.op \in {"has", "get", "list"})
    => /\ UNCHANGED <<mem, dirs, files>>
       /\ (/\ last'.op = "get"
           /\ ~MapHas(mem, LocationOf(last')))
          => DualGet(Now', last'.args.id, CacheAlone(last'.options)).ret = Undefined

Negative(op) ==
    CASE op \in {"has", "set", "del"} -> Bool(FALSE)
      [] op = "get" -> Undefined
      [] op = "list" -> <<>>

\* The outcome the Cache gives the call when the call's noFile is `noFile`
CacheOutcome(call, noFile) ==
    LET o == [call.options EXCEPT !.noFile = noFile]
    IN  CASE call.op = "has" -> CacheHas(Now, call.args.id, o)
          [] call.op = "get" -> CacheGet(Now, call.args.id, o)
          [] call.op = "set" -> CacheSet(Now, call.args.id, call.args.data, o)
          [] call.op = "del" -> CacheDel(Now, call.args.id, o)
          [] call.op = "list" -> CacheList(Now, call.args.dir, o)

\* C24: a Cache operation with noCache and a File operation with noFile
\* return the negative result and leave the backend's entries unchanged;
\* the Cache operates the same with and without noFile; without noCache,
\* Cache.has is true iff the resolved location is present and Cache.set
\* returns true.
C24_SkipStep ==
    /\ (kind = "Cache" /\ last'.options.noCache)
        => /\ last'.ret = Negative(last'.op)
           /\ last'.threw = "none"
           /\ mem' = mem
    /\ (kind = "File" /\ last'.options.noFile)
        => /\ last'.ret = Negative(last'.op)
           /\ last'.threw = "none"
           /\ UNCHANGED <<dirs, files>>
    /\ kind = "Cache"
        => /\ last'.ret = CacheOutcome(last', ~last'.options.noFile).ret
           /\ mem' = CacheOutcome(last', ~last'.options.noFile).w.mem
    /\ (kind = "Cache" /\ ~last'.options.noCache)
        => /\ last'.op = "has"
                => last'.ret = Bool(MapHas(mem, LocationOf(last')))
           /\ last'.op = "set" => last'.ret = Bool(TRUE)

C24_SkipHints == [][C24_SkipStep]_vars

\* A Cache set with noFile that stored the value
C24_Witness ==
    /\ kind = "Cache"
    /\ last.op = "set"
    /\ last.options.noFile
    /\ ~last.options.noCache
    /\ last.ret = Bool(TRUE)
    /\ MapGet(mem, LocationOf(last)) = last.args.data

(***************************************************************************)
(* One identifier resolved under two different extensions                  *)
(***************************************************************************)
\* The extensions of the callers: the resolver's, and one that ends with
\* another
Extensions == ResolverExts \cup {<<"a", "n">>}

InitExtension ==
    /\ kind = "Cache"
    /\ mem = <<>>
    /\ dirs = {<<>>}
    /\ files = <<>>
    /\ denied = {}
    /\ last = NoCall
    /\ rs \in {r \in [id : ResolverIds, ext : Extensions,
                      once : {NoString}, twice : {NoString},
                      ext2 : Extensions, other : {NoString}] :
                  ExtOrDefault(r.ext) # ExtOrDefault(r.ext2)}
    /\ am = AmIdle
    /\ bot = BotIdle
    /\ clock = ClockIdle
    /\ tasks = TasksIdle
    /\ builder = BuilderIdle

NextExtension ==
    \/ ResolveOnce
    \/ ResolveOther

SpecExtension == InitExtension /\ [][NextExtension]_vars

\* C25: one identifier resolved under two different extensions yields two
\* different locations.
C25_ExtensionsSeparateLocations ==
    (rs.once # NoString /\ rs.other # NoString) => rs.once # rs.other

\* C26: the resolved location is the root, "/", the identifier with its
\* backslashes replaced and one leading slash stripped, and the suffix "."
\* extension, appended exactly when the identifier does not end with that
\* suffix already; so the location ends with "." extension.
C26_ExtensionSuffix ==
    rs.once # NoString
    => LET dotted == <<".">> \o ExtOrDefault(rs.ext)
           slashed == ReplaceBackslashes(rs.id)
           stripped == IF StartsWith(slashed, <<"/">>) THEN Tail(slashed)
                       ELSE slashed
       IN  /\ EndsWith(rs.once, dotted)
           /\ rs.once = rootPath \o <<"/">> \o stripped
                            \o (IF EndsWith(stripped, dotted) THEN <<>> ELSE dotted)

(***************************************************************************)
(* Two modify calls that are not awaited, on a store that holds an entry   *)
(***************************************************************************)
InitTasks ==
    /\ kind \in {"Cache", "File", "Dual"}
    /\ denied = {}
    /\ \E v \in Values :
          \E stored \in {Set(kind, World(<<>>, {<<>>}, <<>>), <<"x">>, v,
                             DefaultOptions)} :
              /\ mem = stored.w.mem
              /\ dirs = stored.w.dirs
              /\ files = stored.w.files
    /\ last = NoCall
    /\ rs = RsIdle
    /\ am = AmIdle
    /\ bot = BotIdle
    /\ clock = ClockIdle
    /\ tasks = TasksIdle
    /\ builder = BuilderIdle

\* The chain c has moved to `next` after a call on the store with outcome
\* `out`, and waits to be resumed unless it is done
Step(c, next, out) ==
    /\ mem' = out.w.mem
    /\ dirs' = out.w.dirs
    /\ files' = out.w.files
    /\ tasks' = [queue |-> IF next.pc = "done" THEN Dequeue(tasks.queue, c)
                           ELSE Append(Dequeue(tasks.queue, c), c),
                 chain |-> [tasks.chain EXCEPT ![c] = next]]
    /\ UNCHANGED <<kind, denied, last, rs, am, bot, clock, builder>>

\* The chain after a call on the store threw `why`
Failed(chain, why) == [chain EXCEPT !.pc = "done", !.threw = why]

\* modify(id, fn) is called: this.has(id, options) is called and awaited
ModifyCall ==
    \E c \in Chains, id \in RawIds, fn \in Modifiers :
        /\ tasks.chain[c].pc = "idle"
        /\ \E out \in {Has(kind, Now, id, DefaultOptions)} :
              Step(c,
                   IF out.threw # "none" THEN Failed(tasks.chain[c], out.threw)
                   ELSE [tasks.chain[c] EXCEPT !.pc = "has", !.id = id,
                                               !.fn = fn, !.ret = out.ret],
                   out)

\* has is settled: return false, or call this.get(id, options) and await it
ModifyAfterHas ==
    \E c \in Ready :
        /\ tasks.chain[c].pc = "has"
        /\ IF ~IsTrue(tasks.chain[c].ret)
           THEN Step(c, [tasks.chain[c] EXCEPT !.pc = "done", !.ret = Bool(FALSE)],
                     Returns(Undefined, Now))
           ELSE \E out \in {Get(kind, Now, tasks.chain[c].id, DefaultOptions)} :
                   Step(c,
                        IF out.threw # "none"
                        THEN Failed(tasks.chain[c], out.threw)
                        ELSE [tasks.chain[c] EXCEPT !.pc = "get",
                                                    !.data = out.ret],
                        out)

\* get is settled: call modify(data, id, this) and await it
ModifyAfterGet ==
    \E c \in Ready :
        /\ tasks.chain[c].pc = "get"
        /\ Step(c,
                IF tasks.chain[c].fn = "throws"
                THEN Failed(tasks.chain[c], "caller")
                ELSE [tasks.chain[c] EXCEPT
                        !.pc = "fn",
                        !.value = ApplyModifier(tasks.chain[c].fn,
                                                tasks.chain[c].data,
                                                tasks.chain[c].id)],
                Returns(Undefined, Now))

\* the modifier is settled: call this.set(id, data, options) and await it
ModifyAfterFn ==
    \E c \in Ready :
        /\ tasks.chain[c].pc = "fn"
        /\ \E out \in {WriteBack(kind, Now, tasks.chain[c])} :
              Step(c,
                   IF out.threw # "none" THEN Failed(tasks.chain[c], out.threw)
                   ELSE [tasks.chain[c] EXCEPT !.pc = "set", !.ret = out.ret],
                   out)

\* set is settled: return its result
ModifyAfterSet ==
    \E c \in Ready :
        /\ tasks.chain[c].pc = "set"
        /\ Step(c, [tasks.chain[c] EXCEPT !.pc = "done"], Returns(Undefined, Now))

NextTasks ==
    \/ ModifyCall
    \/ ModifyAfterHas
    \/ ModifyAfterGet
    \/ ModifyAfterFn
    \/ ModifyAfterSet

SpecTasks == InitTasks /\ [][NextTasks]_vars

\* Both chains have returned true for the same identifier after reading the
\* same value
BothReadTheSame ==
    /\ \A c \in Chains : /\ tasks.chain[c].pc = "done"
                         /\ tasks.chain[c].ret = Bool(TRUE)
                         /\ tasks.chain[c].threw = "none"
    /\ tasks.chain["first"].id = tasks.chain["second"].id
    /\ tasks.chain["first"].data = tasks.chain["second"].data

\* C27: when two modify calls on one identifier were running at once, both
\* read the same value and both returned true, the store holds the result of
\* one modifier applied to that value: the other update is lost.
C27_LostUpdate ==
    BothReadTheSame
    => LET c == tasks.chain["second"]
       IN  /\ Get(kind, Now, c.id, DefaultOptions).ret
                 = ApplyModifier(c.fn, c.data, c.id)
           /\ Get(kind, Now, c.id, DefaultOptions).ret
                 # ApplyModifier(c.fn, ApplyModifier(c.fn, c.data, c.id), c.id)

\* Both calls have returned true after reading the same value
C27_Witness == BothReadTheSame

(***************************************************************************)
(* The batch and predicate layer as a whole, on a store no path of which   *)
(* is denied; the caller-supplied functions may throw                      *)
(***************************************************************************)
Actions == {"noop", "throws"}

\* The predicates and modifiers of callers whose functions may throw
ThrowingPredicates == Predicates \cup {"throws"}

ThrowingModifiers == Modifiers \cup {"throws"}

InitLayer ==
    /\ kind \in {"Cache", "File", "Dual"}
    /\ mem = <<>>
    /\ dirs = {<<>>}
    /\ files = <<>>
    /\ denied = {}
    /\ last = NoCall
    /\ rs = RsIdle
    /\ am = AmIdle
    /\ bot = BotIdle
    /\ clock = ClockIdle
    /\ tasks = TasksIdle
    /\ builder = BuilderIdle

\* The call `op` has completed with outcome `out`
Finish(op, args, options, out) ==
    /\ mem' = out.w.mem
    /\ dirs' = out.w.dirs
    /\ files' = out.w.files
    /\ last' = Completed(op, args, options, out)
    /\ UNCHANGED <<kind, denied, rs, am, bot, clock, tasks, builder>>

CallHasAll ==
    \E ids \in SeqsUpTo(RawIds, MaxBatch), options \in BatchOptions :
        Finish("hasAll", [ids |-> ids], options,
               hasAll(kind, Returns(Bool(TRUE), Now), ids, 1, options))

CallHasAny ==
    \E ids \in SeqsUpTo(RawIds, MaxBatch), options \in BatchOptions :
        Finish("hasAny", [ids |-> ids], options,
               hasAny(kind, Returns(Bool(FALSE), Now), ids, 1, options))

CallGetAll ==
    \E ids \in SeqsUpTo(RawIds, MaxBatch), options \in BatchOptions :
        Finish("getAll", [ids |-> ids], options,
               getAll(kind, Returns(<<>>, Now), ids, 1, options))

CallExpectAll ==
    \E ids \in SeqsUpTo(RawIds, MaxBatch), predicate \in ThrowingPredicates,
       options \in BatchOptions :
        Finish("expectAll", [ids |-> ids, predicate |-> predicate], options,
               expectAll(kind, Returns(Bool(TRUE), Now), ids, 1, predicate, options))

CallExpectAny ==
    \E ids \in SeqsUpTo(RawIds, MaxBatch), predicate \in ThrowingPredicates,
       options \in BatchOptions :
        Finish("expectAny", [ids |-> ids, predicate |-> predicate], options,
               expectAny(kind, Returns(Bool(FALSE), Now), ids, 1, predicate, options))

CallAction ==
    \E id \in RawIds, fn \in Actions, options \in BatchOptions :
        Finish("action", [id |-> id, fn |-> fn], options,
               action(kind, Now, id, fn, options))

CallActionIf ==
    \E id \in RawIds, fn \in Actions, predicate \in ThrowingPredicates,
       options \in BatchOptions :
        Finish("actionIf", [id |-> id, fn |-> fn, predicate |-> predicate],
               options, actionIf(kind, Now, id, fn, predicate, options))

CallActionAll ==
    \E ids \in SeqsUpTo(RawIds, MaxBatch), fn \in Actions, options \in BatchOptions :
        Finish("actionAll", [ids |-> ids, fn |-> fn], options,
               actionAll(kind, Returns(Undefined, Now), ids, 1, fn, options))

CallActionAllIf ==
    \E ids \in SeqsUpTo(RawIds, MaxBatch), fn \in Actions,
       predicate \in ThrowingPredicates, options \in BatchOptions :
        Finish("actionAllIf", [ids |-> ids, fn |-> fn, predicate |-> predicate],
               options,
               actionAllIf(kind, Returns(Undefined, Now), ids, 1, fn, predicate,
                           options))

CallExpectThrowing ==
    \E id \in RawIds, predicate \in ThrowingPredicates, options \in BatchOptions :
        Finish("expect", [id |-> id, predicate |-> predicate], options,
               expect(kind, Now, id, predicate, options))

CallModifyThrowing ==
    \E id \in RawIds, fn \in ThrowingModifiers, options \in BatchOptions :
        Finish("modify", [id |-> id, fn |-> fn], options,
               modify(kind, Now, id, fn, options))

CallModifyIfThrowing ==
    \E id \in RawIds, fn \in ThrowingModifiers,
       predicate \in ThrowingPredicates, options \in BatchOptions :
        Finish("modifyIf", [id |-> id, fn |-> fn, predicate |-> predicate],
               options, modifyIf(kind, Now, id, fn, predicate, options))

CallModifyAllThrowing ==
    \E ids \in SeqsUpTo(RawIds, MaxBatch), fn \in ThrowingModifiers,
       options \in BatchOptions :
        Finish("modifyAll", [ids |-> ids, fn |-> fn], options,
               modifyAll(kind, Now, ids, fn, options))

CallModifyAllIfThrowing ==
    \E ids \in SeqsUpTo(RawIds, MaxBatch), fn \in ThrowingModifiers,
       predicate \in ThrowingPredicates, options \in BatchOptions :
        Finish("modifyAllIf", [ids |-> ids, fn |-> fn, predicate |-> predicate],
               options, modifyAllIf(kind, Now, ids, fn, predicate, options))

NextLayer ==
    \/ CallSetAll
    \/ CallDelAll
    \/ CallExpectThrowing
    \/ CallModifyThrowing
    \/ CallModifyIfThrowing
    \/ CallModifyAllThrowing
    \/ CallModifyAllIfThrowing
    \/ CallHasAll
    \/ CallHasAny
    \/ CallGetAll
    \/ CallExpectAll
    \/ CallExpectAny
    \/ CallAction
    \/ CallActionIf
    \/ CallActionAll
    \/ CallActionAllIf

SpecLayer == InitLayer /\ [][NextLayer]_vars

BatchOps ==
    {"hasAll", "hasAny", "getAll", "setAll", "delAll", "expectAll", "expectAny",
     "actionAll", "actionAllIf", "modifyAll", "modifyAllIf"}

\* The identifiers a batch call was given, in input order
InputIds(call) ==
    IF call.op = "setAll"
    THEN [i \in 1..Len(call.args.list) |-> call.args.list[i][1]]
    ELSE call.args.ids

\* Whether the calls are a sequence of blocks, one per identifier of ids and
\* in the order of ids, each block holding calls for its identifier only
RECURSIVE InBlocks(_, _)
InBlocks(calls, ids) ==
    IF calls = <<>> THEN TRUE
    ELSE IF ids = <<>> THEN FALSE
    ELSE IF Head(calls).id = Head(ids) THEN InBlocks(Tail(calls), ids)
    ELSE InBlocks(calls, Tail(ids))

\* C28: within one batch operation the calls of the primitives and of the
\* caller-supplied functions come identifier by identifier in input order,
\* all calls for one identifier before the first call for the next; getAll
\* returns one pair per input identifier, in input order.
C28_SequentialBatches ==
    /\ last.op \in BatchOps => InBlocks(last.calls, InputIds(last))
    /\ (last.op = "getAll" /\ last.threw = "none")
        => /\ Len(last.ret) = Len(last.args.ids)
           /\ \A i \in 1..Len(last.ret) : last.ret[i][1] = last.args.ids[i]
           /\ CallIds(last.calls, "get") = last.args.ids

\* A getAll of two different identifiers, both of which hold a value
C28_Witness ==
    /\ last.op = "getAll"
    /\ Len(last.args.ids) = 2
    /\ last.args.ids[1] # last.args.ids[2]
    /\ last.threw = "none"
    /\ \A i \in 1..Len(last.ret) : last.ret[i][2] \in Values

\* Whether the outcome of a call records a call of the operation `op`
Invoked(call, op) == \E i \in 1..Len(call.calls) : call.calls[i].op = op

\* Whether the call was given a predicate, action or modifier that throws
\* and has invoked it
ThrowingPredicateInvoked(call) ==
    /\ call.op \in {"expect", "expectAll", "expectAny", "actionIf", "actionAllIf",
                    "modifyIf", "modifyAllIf"}
    /\ call.args.predicate = "throws"
    /\ Invoked(call, "predicate")

ThrowingActionInvoked(call) ==
    /\ call.op \in {"action", "actionIf", "actionAll", "actionAllIf"}
    /\ call.args.fn = "throws"
    /\ Invoked(call, "action")

ThrowingModifierInvoked(call) ==
    /\ call.op \in {"modify", "modifyIf", "modifyAll", "modifyAllIf"}
    /\ call.args.fn = "throws"
    /\ Invoked(call, "modifier")

\* C29: when the predicate, action or modifier a call invokes throws, the
\* call rejects with that error; a modify, modifyIf, modifyAll or modifyAllIf
\* that so rejects has performed no set and left the store unchanged.
C29_CallerStep ==
    /\ (\/ ThrowingPredicateInvoked(last')
        \/ ThrowingActionInvoked(last')
        \/ ThrowingModifierInvoked(last'))
        => last'.threw = "caller"
    /\ (/\ last'.op \in {"modify", "modifyIf", "modifyAll", "modifyAllIf"}
        /\ ThrowingPredicateInvoked(last') \/ ThrowingModifierInvoked(last'))
        => /\ ~Invoked(last', "set")
           /\ UNCHANGED <<mem, dirs, files>>

C29_CallerFailurePropagates == [][C29_CallerStep]_vars

\* A modify whose modifier threw on a present entry
C29_Witness ==
    /\ last.op = "modify"
    /\ ThrowingModifierInvoked(last)
    /\ last.threw = "caller"
    /\ Get(kind, Now, last.args.id, last.options).ret \in Values

\* The raw identifier under which the listener looks the callback up
InvokedId(interaction) ==
    IF interaction.type = "command" THEN interaction.commandName
    ELSE RawId(interaction.customId)

\* Whether the interaction is one an error reply can be sent to
CanReply(interaction) ==
    interaction.repliable /\ (interaction.deferred => interaction.ephemeral)

\* C30: invoke does not reject.  When the callback registered for the raw
\* identifier throws, the error is logged and the error reply is attempted:
\* it is sent, or what keeps it from being sent is logged, and a send that
\* fails is logged too.  When no callback is registered for the raw
\* identifier, no callback runs and a warning is all that is logged.
C30_InvokeNeverRejects ==
    (am.op = "interaction" /\ am.effects # <<>>)
    => LET e == am.effects
           raw == InvokedId(am.interaction)
           Sent == IF am.interaction.deferred THEN SendEffect("followUp", raw)
                   ELSE SendEffect("reply", raw)
       IN  /\ \A i \in 1..Len(e) : e[i].op # "reject"
           /\ IF ~MapHas(am.callbacks, raw) THEN e = <<LogEffect("warn", raw)>>
              ELSE /\ e[1].op = "callback"
                   /\ e[1].callback = MapGet(am.callbacks, raw)
                   /\ \A i \in 2..Len(e) : e[i].op # "callback"
                   /\ e[1].callback = "throws"
                        => /\ e[2] = LogEffect("error", raw)
                           /\ IF ~CanReply(am.interaction)
                              THEN e = <<e[1], e[2], LogEffect("error", raw)>>
                              ELSE IF am.interaction.sendFails
                              THEN e = <<e[1], e[2], Sent, LogEffect("error", raw)>>
                              ELSE e = <<e[1], e[2], Sent>>

\* A callback that threw and an error reply that failed
C30_Witness ==
    /\ am.op = "interaction"
    /\ Len(am.effects) = 4
    /\ am.effects[1].callback = "throws"
    /\ am.effects[3].op = "reply"
    /\ am.interaction.sendFails

(***************************************************************************)
(* A Dual write that reports failure                                       *)
(***************************************************************************)
\* What Dual.get and Dual.has show for the identifier of `call` in the
\* world w
Observed(call, w) ==
    LET options == Options(call.options.extension, FALSE, FALSE)
    IN  <<DualGet(w, call.args.id, options).ret,
          DualHas(w, call.args.id, options).ret>>

\* C32: whenever Dual.set(id, v) returns false, Dual.get(id) and
\* Dual.has(id) return afterwards what they returned before the call; a
\* value whose write reported failure is not served from the cache.
C32_FailedSetStep ==
    (/\ kind = "Dual"
     /\ last'.op = "set"
     /\ last'.threw = "none"
     /\ last'.ret = Bool(FALSE))
    => Observed(last', World(mem', dirs', files')) = Observed(last', Now)

C32_FailedWriteLeavesNoTrace == [][C32_FailedSetStep]_vars

(***************************************************************************)
(* A Dual store used sequentially: every set and del is awaited and is     *)
(* called with the default options.  The callers' identifiers include two  *)
(* spellings of one file.                                                  *)
(***************************************************************************)
\* "./x" names the file of "x"
DottedId == <<".", "/", "x">>

SequentialIds == RawIds \cup {DottedId}

InitSequential ==
    /\ kind = "Dual"
    /\ mem = <<>>
    /\ dirs \in {{<<>>}, {<<>>, <<DataDir>>}}
    /\ files = <<>>
    /\ denied \in {{}, {FilePath(<<"x">>)}}
    /\ last = NoCall
    /\ rs = RsIdle
    /\ am = AmIdle
    /\ bot = BotIdle
    /\ clock = ClockIdle
    /\ tasks = TasksIdle
    /\ builder = BuilderIdle

SequentialSet ==
    \E id \in SequentialIds, data \in Values :
        \E out \in {DualSet(Now, id, data, DefaultOptions)} :
            /\ mem' = out.w.mem
            /\ dirs' = out.w.dirs
            /\ files' = out.w.files
            /\ last' = Completed("set", [id |-> id, data |-> data],
                                 DefaultOptions, out)
            /\ UNCHANGED <<kind, denied, rs, am, bot, clock, tasks, builder>>

SequentialDel ==
    \E id \in SequentialIds :
        \E out \in {DualDel(Now, id, DefaultOptions)} :
            /\ mem' = out.w.mem
            /\ dirs' = out.w.dirs
            /\ files' = out.w.files
            /\ last' = Completed("del", [id |-> id], DefaultOptions, out)
            /\ UNCHANGED <<kind, denied, rs, am, bot, clock, tasks, builder>>

NextSequential ==
    \/ SequentialSet
    \/ SequentialDel

SpecSequential == InitSequential /\ [][NextSequential]_vars

\* The cache and the files of the world w hold the same locations, and the
\* file at the location of every cache entry holds the entry's value
Consistent(w) ==
    /\ {Normalize(w.mem[i][1]) : i \in 1..Len(w.mem)} = DOMAIN w.files
    /\ \A i \in 1..Len(w.mem) :
          /\ Normalize(w.mem[i][1]) \in DOMAIN w.files
          /\ JSONParse(w.files[Normalize(w.mem[i][1])])
                = [ok |-> TRUE, val |-> w.mem[i][2]]

\* No file system operation of the call failed: a set wrote its file, a
\* del removed its file or found no cache entry and tried no removal
FileOperationsSucceeded(call, w) ==
    /\ call.threw = "none"
    /\ \/ call.ret = Bool(TRUE)
       \/ call.op = "del" /\ ~MapHas(w.mem, Location(call.args.id))

\* C33: a Dual.set or Dual.del with default options that starts where the
\* cache and the files hold the same entries, and whose file operations
\* succeed, ends where the cache and the files hold the same locations
\* with equal values.
C33_SequentialStep ==
    (/\ Consistent(Now)
     /\ last'.op \in {"set", "del"}
     /\ FileOperationsSucceeded(last', Now))
    => Consistent(World(mem', dirs', files'))

C33_SequentialConsistency == [][C33_SequentialStep]_vars

(***************************************************************************)
(* Two set / del calls of a File or Dual store that are not awaited.       *)
(* FileStorage.set runs up to `await autoCatch(FS.mkdir(...))`, is         *)
(* resumed when mkdir has settled and calls FS.writeFile, which is not     *)
(* one file system operation: it opens the file with the flag "w"          *)
(* (creating or truncating it), writes the text from offset 0 through its  *)
(* own descriptor and closes the descriptor, and its promise settles       *)
(* after the close.  The file system calls of two chains complete in any   *)
(* order.  tasks.completed lists the chains in the order in which their    *)
(* calls returned.                                                         *)
(***************************************************************************)
\* A chain on which neither set nor del was called yet
IdleWrite ==
    [pc |-> "idle", op |-> "none", id |-> <<>>, data |-> Undefined,
     path |-> <<>>, raw |-> <<>>, fd |-> "none", ret |-> Undefined]

InitWrites ==
    /\ kind \in {"File", "Dual"}
    /\ denied = {}
    /\ \E stored \in {World(<<>>, {<<>>}, <<>>),
                      World(<<>>, {<<>>, <<DataDir>>}, <<>>),
                      Set(kind, World(<<>>, {<<>>}, <<>>), <<"x">>, Five,
                          DefaultOptions).w} :
          /\ mem = stored.mem
          /\ dirs = stored.dirs
          /\ files = stored.files
    /\ last = NoCall
    /\ rs = RsIdle
    /\ am = AmIdle
    /\ bot = BotIdle
    /\ clock = ClockIdle
    /\ tasks = [completed |-> <<>>, chain |-> [c \in Chains |-> IdleWrite]]
    /\ builder = BuilderIdle

\* The chain c has moved to `next` in the world w
Moved(c, next, w) ==
    /\ mem' = w.mem
    /\ dirs' = w.dirs
    /\ files' = w.files
    /\ tasks' = [completed |-> IF next.pc = "done"
                               THEN Append(tasks.completed, c)
                               ELSE tasks.completed,
                 chain |-> [tasks.chain EXCEPT ![c] = next]]
    /\ UNCHANGED <<kind, denied, last, rs, am, bot, clock, builder>>

\* The text a descriptor opened with "w" leaves in a file that held `old`
\* when it writes raw at offset 0
Overwrite(old, raw) == raw \o SubSeq(old, Len(raw) + 1, Len(old))

\* set(id, data) is called: a Dual store writes its cache first; then
\* FileStorage.set resolves the path, serialises the data and calls mkdir
WriteSetCall ==
    \E c \in Chains, id \in RawIds, data \in Values :
        /\ tasks.chain[c].pc = "idle"
        /\ \E cached \in {IF kind = "Dual"
                          THEN CacheSet(Now, id, data, DefaultOptions)
                          ELSE Returns(Bool(TRUE), Now)} :
              Moved(c,
                    IF IsTrue(cached.ret)
                    THEN [tasks.chain[c] EXCEPT
                            !.pc = "mkdir", !.op = "set", !.id = id,
                            !.data = data, !.path = idPath(id, NoExt),
                            !.raw = Stringify(data, 0)]
                    ELSE [tasks.chain[c] EXCEPT
                            !.pc = "done", !.op = "set", !.id = id,
                            !.data = data, !.ret = Bool(FALSE)],
                    cached.w)

\* del(id) is called: a Dual store deletes from its cache first and stops
\* when the cache held nothing; then FileStorage.del calls rm
WriteDelCall ==
    \E c \in Chains, id \in RawIds :
        /\ tasks.chain[c].pc = "idle"
        /\ \E cached \in {IF kind = "Dual"
                          THEN CacheDel(Now, id, DefaultOptions)
                          ELSE Returns(Bool(TRUE), Now)} :
              Moved(c,
                    IF IsTrue(cached.ret)
                    THEN [tasks.chain[c] EXCEPT
                            !.pc = "rm", !.op = "del", !.id = id,
                            !.path = idPath(id, NoExt)]
                    ELSE [tasks.chain[c] EXCEPT
                            !.pc = "done", !.op = "del", !.id = id,
                            !.ret = Bool(FALSE)],
                    cached.w)

\* await autoCatch(FS.mkdir(path.slice(0, path.lastIndexOf("/")))) settles;
\* FS.writeFile is called
WriteAfterMkdir ==
    \E c \in Chains :
        /\ tasks.chain[c].pc = "mkdir"
        /\ \E made \in {autoCatch(Mkdir(Now,
                            SubSeq(tasks.chain[c].path, 1,
                                   LastIndexOf(tasks.chain[c].path, "/") - 1)))} :
              Moved(c, [tasks.chain[c] EXCEPT !.pc = "open"], made.w)

\* FS.writeFile opens the file, which creates or truncates it; where the
\* open is rejected the set returns false
WriteOpen ==
    \E c \in Chains :
        /\ tasks.chain[c].pc = "open"
        /\ \E opened \in {autoCatch(WriteFile(Now, tasks.chain[c].path, <<>>))} :
              Moved(c,
                    IF opened.result
                    THEN [tasks.chain[c] EXCEPT !.pc = "write", !.fd = "open"]
                    ELSE [tasks.chain[c] EXCEPT !.pc = "done",
                                                !.ret = Bool(FALSE)],
                    opened.w)

\* FS.writeFile writes the text at offset 0 of its descriptor; a file that
\* was removed since the open is no longer reachable by its path
WriteText ==
    \E c \in Chains :
        /\ tasks.chain[c].pc = "write"
        /\ Moved(c, [tasks.chain[c] EXCEPT !.pc = "close"],
                 IF tasks.chain[c].fd = "open"
                 THEN [Now EXCEPT
                         !.files[Normalize(tasks.chain[c].path)] =
                             Overwrite(@, tasks.chain[c].raw)]
                 ELSE Now)

\* FS.writeFile closes the descriptor and its promise is fulfilled: set
\* returns true
WriteClose ==
    \E c \in Chains :
        /\ tasks.chain[c].pc = "close"
        /\ Moved(c, [tasks.chain[c] EXCEPT !.pc = "done", !.fd = "none",
                                           !.ret = Bool(TRUE)],
                 Now)

\* await autoCatch(FS.rm(path)) settles: del returns its result; the
\* descriptors open on the removed file keep the file, not the path
WriteAfterRm ==
    \E c \in Chains :
        /\ tasks.chain[c].pc = "rm"
        /\ \E removed \in {autoCatch(Rm(Now, tasks.chain[c].path))} :
              /\ mem' = removed.w.mem
              /\ dirs' = removed.w.dirs
              /\ files' = removed.w.files
              /\ tasks' =
                    [completed |-> Append(tasks.completed, c),
                     chain |->
                        [d \in Chains |->
                            IF d = c
                            THEN [tasks.chain[c] EXCEPT
                                    !.pc = "done",
                                    !.ret = Bool(removed.result)]
                            ELSE IF /\ removed.result
                                    /\ tasks.chain[d].fd = "open"
                                    /\ Normalize(tasks.chain[d].path)
                                          = Normalize(tasks.chain[c].path)
                            THEN [tasks.chain[d] EXCEPT !.fd = "unlinked"]
                            ELSE tasks.chain[d]]]
              /\ UNCHANGED <<kind, denied, last, rs, am, bot, clock, builder>>

NextWrites ==
    \/ WriteSetCall
    \/ WriteDelCall
    \/ WriteAfterMkdir
    \/ WriteOpen
    \/ WriteText
    \/ WriteClose
    \/ WriteAfterRm

SpecWrites == InitWrites /\ [][NextWrites]_vars

\* Both calls have returned and were made on the same identifier
BothCompleted ==
    /\ Len(tasks.completed) = 2
    /\ tasks.chain["first"].id = tasks.chain["second"].id

\* The file of the chain's identifier holds what the chain's call leaves
\* when it runs alone: the serialised data after a set, nothing after a del
OutcomeOf(chain) ==
    IF chain.op = "set"
    THEN /\ Normalize(chain.path) \in DOMAIN files
         /\ files[Normalize(chain.path)] = chain.raw
    ELSE Normalize(chain.path) \notin DOMAIN files

\* C31: after two un-awaited File set / del calls on one identifier have
\* both completed, the stored entry is the outcome of the call that
\* completed last, provided that call succeeded: the text it wrote, or no
\* entry after a del, never a mixture.
C31_LastWriteWins ==
    (/\ kind = "File"
     /\ BothCompleted
     /\ tasks.chain[tasks.completed[2]].ret = Bool(TRUE))
    => OutcomeOf(tasks.chain[tasks.completed[2]])

\* Both calls were Dual.set on one identifier and both returned true
BothSetsSucceeded ==
    /\ kind = "Dual"
    /\ BothCompleted
    /\ \A c \in Chains : /\ tasks.chain[c].op = "set"
                         /\ tasks.chain[c].ret = Bool(TRUE)

\* C34: after two Dual.set calls on one identifier, the second issued
\* without awaiting the first, have both returned true, the cache and the
\* file hold the same value for the identifier, in whatever order the file
\* writes completed.
C34_ConcurrentConsistency ==
    BothSetsSucceeded
    => LET id == tasks.chain["first"].id
       IN  /\ MapHas(mem, Location(id))
           /\ FilePath(id) \in DOMAIN files
           /\ JSONParse(files[FilePath(id)])
                 = [ok |-> TRUE, val |-> MapGet(mem, Location(id))]

(***************************************************************************)
(* A ComponentBuilder to which components are added and on which build is  *)
(* called.  build runs without interruption once it is called, so its      *)
(* loop is weakly fair.                                                    *)
(***************************************************************************)
MaxComponents == 6

\* The iterations of the loop of build the model follows
MaxIterations == 3

\* The components the callers add: a button and a select menu
ComponentKinds == {<<"component", "button">>, <<"component", "menu">>}

InitBuilder ==
    /\ kind = "Cache"
    /\ mem = <<>>
    /\ dirs = {<<>>}
    /\ files = <<>>
    /\ denied = {}
    /\ last = NoCall
    /\ rs = RsIdle
    /\ am = AmIdle
    /\ bot = BotIdle
    /\ clock = ClockIdle
    /\ tasks = TasksIdle
    /\ builder = BuilderIdle

\* builder.component(c)
BuilderComponent ==
    \E c \in ComponentKinds :
        /\ builder.pc # "loop"
        /\ Len(builder.list) < MaxComponents
        /\ builder' = [builder EXCEPT !.pc = "idle",
                                      !.list = component(builder.list, c)]
        /\ UNCHANGED <<kind, mem, dirs, files, denied, last, rs, am, bot, clock, tasks>>

\* builder.components(c1, c2) and builder.components()
BuilderComponents ==
    \E added \in {<<>>} \cup (ComponentKinds \X ComponentKinds) :
        /\ builder.pc # "loop"
        /\ builder' = [builder EXCEPT !.pc = "idle", !.list = components(added)]
        /\ UNCHANGED <<kind, mem, dirs, files, denied, last, rs, am, bot, clock, tasks>>

\* builder.build() is called: result = [], rows = [...this.__components]
BuilderBuild ==
    /\ builder.pc # "loop"
    /\ builder' = [builder EXCEPT !.pc = "loop", !.rows = builder.list,
                                  !.result = <<>>, !.iterations = 0,
                                  !.ret = <<>>]
    /\ UNCHANGED <<kind, mem, dirs, files, denied, last, rs, am, bot, clock, tasks>>

\* The loop condition holds: one iteration of the loop
BuildIterate ==
    /\ builder.pc = "loop"
    /\ LoopCondition(builder.rows)
    /\ builder.iterations < MaxIterations
    /\ builder' = [builder EXCEPT !.rows = LoopBody(builder.rows),
                                  !.iterations = @ + 1]
    /\ UNCHANGED <<kind, mem, dirs, files, denied, last, rs, am, bot, clock, tasks>>

\* The loop condition fails: return result
BuildReturn ==
    /\ builder.pc = "loop"
    /\ ~LoopCondition(builder.rows)
    /\ builder' = [builder EXCEPT !.pc = "returned", !.ret = builder.result]
    /\ UNCHANGED <<kind, mem, dirs, files, denied, last, rs, am, bot, clock, tasks>>

NextBuilder ==
    \/ BuilderComponent
    \/ BuilderComponents
    \/ BuilderBuild
    \/ BuildIterate
    \/ BuildReturn

SpecBuilder ==
    /\ InitBuilder
    /\ [][NextBuilder]_vars
    /\ WF_vars(BuildIterate)
    /\ WF_vars(BuildReturn)

\* The components of the rows, in order
RECURSIVE Contents(_)
Contents(rows) ==
    IF rows = <<>> THEN <<>> ELSE Head(rows)[2] \o Contents(Tail(rows))

\* The returned rows hold the added components in insertion order, at
\* most 5 per row, and there is a row unless nothing was added
RowsHoldComponents ==
    /\ Contents(builder.ret) = builder.list
    /\ \A i \in 1..Len(builder.ret) : Len(builder.ret[i][2]) <= 5
    /\ builder.ret = <<>> => builder.list = <<>>

\* C35: every call of build returns, and the rows it returns contain every
\* added component in insertion order, at most 5 per row, with no row only
\* when no component was added.
C35_BuildReturnsRows ==
    /\ [](builder.pc = "returned" => RowsHoldComponents)
    /\ (builder.pc = "loop") ~> (builder.pc = "returned")

\* C36: at most one interval timer of the Clock is active at any time:
\* start leaves exactly the timer it has just made, the one started before
\* being cancelled; after stop no timer is active, and the only timer that
\* ever fires is the active one; add, remove, run and the firing of the
\* timer leave the timer as it is.
C36_TimerStep ==
    /\ Cardinality(clock'.active) <= 1
    /\ clock'.op = "start"
        => /\ clock'.timer \notin 0..clock.intervals
           /\ clock'.active = {clock'.timer}
    /\ clock'.op = "stop"
        => clock'.active = {}
    /\ clock'.op = "tick"
        => clock.active = {clock.timer}
    /\ clock'.op \in {"add", "remove", "run", "tick"}
        => /\ clock'.active = clock.active
           /\ clock'.timer = clock.timer

C36_AtMostOneTimer == [][C36_TimerStep]_vars

\* The clock was started again while its timer was active, callbacks were
\* triggered by hand since, and the latest timer is the only active one
C36_Witness ==
    /\ clock.op = "run"
    /\ clock.intervals >= 2
    /\ clock.active = {clock.intervals}
    /\ clock.callbacks # <<>>

====
